---- MODULE Spec2Model ----
(***************************************************************************)
(* Adaptive ensemble with a tail-free prior (calibre).                     *)
(*                                                                         *)
(* The model covers calibre/model/adaptive_ensemble.py and the parts of    *)
(* the example drivers that build the node-specific latent names.  One     *)
(* behaviour is one call of one entry point: Init draws the entry point    *)
(* and its arguments, the single step that follows runs the whole call     *)
(* and leaves its results (or the exception it raised) in the state.       *)
(*                                                                         *)
(* Numbers.  Raw GP weights, temperatures, predictions and residuals are   *)
(* small naturals.  Weights on the simplex are exact rationals <<n, d>>    *)
(* in lowest terms, so "sums to 1" is exact and floating tolerance is not  *)
(* modelled.  exp is modelled with base 2 (Exp(t) = 2^t): every property   *)
(* stated below depends on exp only through positivity, monotonicity and   *)
(* exp(0) = 1.  One posterior draw is modelled (the sample axis of the     *)
(* arrays is dropped); the evaluation-point axis is kept.                  *)
(***************************************************************************)
EXTENDS Integers, Sequences, FiniteSets, TLC

(* ------------------------------ bounds --------------------------------- *)
\* largest number of non-root nodes of a family tree
MaxNodes == 3
\* number of evaluation points N (rows of X)
NumPoints == 1
\* number of training iterations of the VI loop (max_steps)
MaxSteps == 3

\* the largest number of non-root nodes of a tree whose MCMC draws are taken
\* through the prediction stage
MaxPredictionNodes == 2

\* the values raw GP weights and temperatures are drawn from
RawValues == {0, 1}
Temperatures == {0, 1}

(* --------------------------- program constants -------------------------- *)
ROOT_NODE_DEFAULT_NAME == "root"

\* the node names the trees are built from, in a fixed order
NodeNames == <<"a", "b", "c", "d", "e">>

Points == 1..NumPoints

\* the value v itself; comparing it makes TLC evaluate a function once and
\* keep the result instead of re-evaluating its body at every application
Eval(v) == IF v = v THEN v ELSE v

(* ------------------------- exact arithmetic ----------------------------- *)
RECURSIVE GCD(_, _)
GCD(m, n) == IF n = 0 THEN m ELSE GCD(n, m % n)

\* the rational n/d, d > 0, n >= 0, in lowest terms
Rat(n, d) == LET g == GCD(n, d) IN <<n \div g, d \div g>>

RZero == <<0, 1>>
ROne == <<1, 1>>
RInt(i) == <<i, 1>>
RMul(r, s) == Rat(r[1] * s[1], r[2] * s[2])
RAdd(r, s) ==
    LET g == GCD(r[2], s[2])
        l == (r[2] \div g) * s[2]
    IN  Rat(r[1] * (l \div r[2]) + s[1] * (l \div s[2]), l)
RNeg(r) == <<0 - r[1], r[2]>>
RSub(r, s) == RAdd(r, RNeg(s))
RAbs(r) == IF r[1] < 0 THEN RNeg(r) ELSE r
\* r / s for s > 0
RDiv(r, s) == Rat(r[1] * s[2], r[2] * s[1])
RLe(r, s) == r[1] * s[2] <= s[1] * r[2]
RLt(r, s) == r[1] * s[2] < s[1] * r[2]

RECURSIVE RSumTo(_, _)
RSumTo(seq, n) == IF n = 0 THEN RZero ELSE RAdd(RSumTo(seq, n - 1), seq[n])
RSum(seq) == LET s == Eval(seq) IN RSumTo(s, Len(s))

RECURSIVE Pow2(_)
Pow2(n) == IF n = 0 THEN 1 ELSE 2 * Pow2(n - 1)

\* tf.exp
Exp(t) == Pow2(t)

RECURSIVE NatSumTo(_, _)
NatSumTo(seq, n) == IF n = 0 THEN 0 ELSE NatSumTo(seq, n - 1) + seq[n]
NatSum(seq) == LET s == Eval(seq) IN NatSumTo(s, Len(s))

Range(seq) == {seq[i] : i \in DOMAIN seq}

RECURSIVE FlattenTo(_, _)
FlattenTo(seqs, n) == IF n = 0 THEN <<>> ELSE FlattenTo(seqs, n - 1) \o seqs[n]
Flatten(seqs) == LET s == Eval(seqs) IN FlattenTo(s, Len(s))

IndexOf(seq, x) == CHOOSE i \in DOMAIN seq : seq[i] = x

\* all orders in which the elements of a set can be enumerated
Enumerations(S) ==
    {s \in [1..Cardinality(S) -> S] : \A i, j \in DOMAIN s : s[i] = s[j] => i = j}

(* ------------------------------ family trees ----------------------------- *)
\* parent vectors: node i hangs under node par[i] < i, 0 being the root
ParentVectors(k) == {par \in [1..k -> 0..(k - 1)] : \A i \in 1..k : par[i] < i}

NodeName(i) == IF i = 0 THEN ROOT_NODE_DEFAULT_NAME ELSE NodeNames[i]

RECURSIVE ChildrenAsc(_, _, _)
ChildrenAsc(par, j, i) ==
    IF i > Len(par) THEN <<>>
    ELSE (IF par[i] = j THEN <<NodeName(i)>> ELSE <<>>) \o ChildrenAsc(par, j, i + 1)

Reverse(seq) == [i \in DOMAIN seq |-> seq[Len(seq) + 1 - i]]

\* the dict of lists of a parent vector; rev lists every parent's children
\* in descending instead of ascending order
TreeOf(par, rev) ==
    LET parents == {par[i] : i \in DOMAIN par}
    IN  [p \in {NodeName(j) : j \in parents} |->
            LET j == CHOOSE j \in parents : NodeName(j) = p
                asc == ChildrenAsc(par, j, 1)
            IN  IF rev THEN Reverse(asc) ELSE asc]

\* the valid family trees with at most MaxNodes non-root nodes
FamilyTrees ==
    {TreeOf(par, rev) : par \in UNION {ParentVectors(k) : k \in 1..MaxNodes},
                        rev \in BOOLEAN}

(* ------------------ tailfree_process: tree bookkeeping ------------------ *)
get_parent_node_names(family_tree) == DOMAIN family_tree

get_nonroot_node_names(family_tree) ==
    UNION {Range(family_tree[p]) : p \in DOMAIN family_tree}

RECURSIVE LeavesUnder(_, _)
LeavesUnder(family_tree, node) ==
    IF node \notin DOMAIN family_tree THEN <<node>>
    ELSE Flatten([i \in DOMAIN family_tree[node] |->
                     LeavesUnder(family_tree, family_tree[node][i])])

\* leaf names, depth first from the root, each parent's children in list order
get_leaf_model_names(family_tree) ==
    LeavesUnder(family_tree, ROOT_NODE_DEFAULT_NAME)

(* ------------------------------ link function ---------------------------- *)
\* link_func(logits, temp): one simplex row per evaluation point
link_func(logits, temp) ==
    [pt \in DOMAIN logits |->
        LET e == Eval([i \in DOMAIN logits[pt] |-> Pow2(logits[pt][i] * temp)])
        IN  [i \in DOMAIN e |-> Rat(e[i], NatSum(e))]]

(* --------------- tailfree_process: conditional and leaf weights ---------- *)
\* the children's raw weights of one parent, stacked on the last axis
StackChildren(family_tree, raw_weights_dict, parent_name) ==
    [pt \in Points |->
        [i \in DOMAIN family_tree[parent_name] |->
            raw_weights_dict[family_tree[parent_name][i]][pt]]]

ParentOf(family_tree, node) ==
    CHOOSE p \in DOMAIN family_tree : node \in Range(family_tree[p])

compute_cond_weights(family_tree, raw_weights_dict, parent_temp_dict) ==
    LET weight_cond == Eval(
            [parent_name \in DOMAIN family_tree |->
                link_func(StackChildren(family_tree, raw_weights_dict, parent_name),
                          Exp(parent_temp_dict[parent_name]))])
    IN  Eval([child \in get_nonroot_node_names(family_tree) |->
            LET parent_name == ParentOf(family_tree, child)
                col == IndexOf(family_tree[parent_name], child)
            IN  [pt \in Points |-> weight_cond[parent_name][pt][col]]])

\* the pairs <<leaf name, weight vector>> below node, whose own weight is acc
RECURSIVE Descend(_, _, _, _)
Descend(node_weights, family_tree, node, acc) ==
    IF node \notin DOMAIN family_tree THEN << <<node, acc>> >>
    ELSE Flatten([i \in DOMAIN family_tree[node] |->
            LET child == family_tree[node][i]
            IN  Descend(node_weights, family_tree, child,
                        Eval([pt \in Points |-> RMul(acc[pt], node_weights[child][pt])]))])

\* <<leaf-weight matrix (points x leaves), leaf names in column order>>
compute_leaf_weights(node_weights, family_tree) ==
    LET pairs == Eval(Descend(node_weights, family_tree, ROOT_NODE_DEFAULT_NAME,
                              [pt \in Points |-> ROne]))
    IN  << Eval([pt \in Points |-> [j \in DOMAIN pairs |-> pairs[j][2][pt]]]),
           [j \in DOMAIN pairs |-> pairs[j][1]] >>

(* ------------------------------ dictionaries ---------------------------- *)
\* a Python dict with its key order: a sequence of <<key, value>> pairs
Keys(d) == [i \in DOMAIN d |-> d[i][1]]
Values(d) == [i \in DOMAIN d |-> d[i][2]]
HasKey(d, k) == \E i \in DOMAIN d : d[i][1] = k
Lookup(d, k) == d[CHOOSE i \in DOMAIN d : d[i][1] = k][2]

\* a numpy array: its shape and its data along the first axis
Array(shape, data) == [shape |-> shape, data |-> data]

\* the out-of-sample prediction of a base model at its first n points
PredictionOf(name, n) ==
    [pt \in 1..n |-> 10 * IndexOf(NodeNames, name) + (pt - 1)]

\* the shapes a base-model prediction can have: (N,), (N + 1,), (N, 1)
ShapeChoices == {<<NumPoints>>, <<NumPoints + 1>>, <<NumPoints, 1>>}

\* base_pred dicts over a set of model names: every key order, every shape
BasePredDicts(names, shapes) ==
    {[i \in DOMAIN order |->
        <<order[i], Array(sh[order[i]], PredictionOf(order[i], sh[order[i]][1]))>>] :
        order \in Enumerations(names), sh \in [names -> shapes]}

\* raw weight vectors over the evaluation points: the value at the first
\* point is drawn, the next points alternate through RawValues
RawVectors ==
    {[pt \in Points |-> (v + pt - 1) % Cardinality(RawValues)] : v \in RawValues}
\* residual GP vectors: 0 or 1 at every point
ResidVectors == {[pt \in Points |-> r] : r \in {0, 1}}

(* --------------------------------- state -------------------------------- *)
VARIABLES
    call,                   \* the entry point this behaviour runs
    pc,                     \* "start" before the call, "done" after it
    family_tree,            \* argument: dict of lists (<<>> is None)
    base_pred,              \* argument: dict of prediction arrays
    weight_gp_dict,         \* raw weight vector of every node that has one
    temp_dict,              \* temperature of every node that has one
    resid_gp_sample,        \* residual GP vector
    trace,                  \* names of the random variables declared, in order
    err,                    \* the exception the call raised, or "none"
    err_key,                \* the model named in the exception message
    cond_weights_dict,      \* conditional weight vector per non-root node
    ensemble_weights,       \* leaf-weight matrix, points x leaves
    ensemble_model_names,   \* leaf names in column order
    ensemble_mean,          \* vector over points
    ensemble_sample,        \* ensemble_mean + residual (the loc of y)
    cond_weight_temp_names, \* MCMC driver: temperature latent names
    node_weight_names,      \* MCMC driver: weight-GP latent names
    initial_state,          \* MCMC driver: shapes of the chain state
    family_name,            \* VI driver: "mfvi" or "sgpr" ("" in other calls)
    arg_order,              \* VI driver: how the trained parameters are passed on
    variational_params,     \* what variational_family returned (12 slots)
    sample_args,            \* the parameters of variational_family_sample, by name
    variational_samples,    \* what variational_family_sample returned (4 slots)
    weight_sample,          \* flat posterior: raw weight samples, a list or an array
    temp_sample,            \* flat posterior: temperature samples
    ensemble_weight_sample, \* flat posterior: weights per sample, point and model
    step,                   \* VI loop: number of optimizer steps taken
    elbo_value,             \* VI loop: the loss value the last step returned
    variables_finite,       \* VI loop: the trainable variables hold finite values
    fitted,                 \* VI loop: the parameter values fetched after the loop
    X,                      \* GP extrapolation: the observed locations
    X_new,                  \* GP extrapolation: the new locations
    f_sample,               \* GP extrapolation: samples of f at X, one vector each
    ridge_factor,           \* GP extrapolation: the ridge added to K(X, X)
    f_new_sample,           \* GP extrapolation: per sample, mean and variance at X_new
    variational_rv_dict,    \* VI graph: the variational factors, by latent name
    kl,                     \* VI graph: the summands of the KL term
    target_binding,         \* MCMC driver: latent name -> position of the chain state
    state_slices,           \* MCMC driver: the positions each draw is sliced from
    prior_ls,               \* MCMC driver: the lengthscales handed to the model
    posterior_ls,           \* MCMC prediction: the lengthscales of the GP extrapolation
    raw_weights_dict,       \* prediction: node name -> what its weight sample is
    parent_temp_dict,       \* prediction: node name -> what its temperature sample is
    weight_gp_sample_dict_val, \* VI prediction: the weight samples, by latent name
    temp_sample_dict_val    \* VI prediction: the temperature samples, by latent name

vars == <<call, pc, family_tree, base_pred, weight_gp_dict, temp_dict,
          resid_gp_sample, trace, err, err_key, cond_weights_dict,
          ensemble_weights, ensemble_model_names, ensemble_mean,
          ensemble_sample, cond_weight_temp_names, node_weight_names,
          initial_state, family_name, arg_order, variational_params,
          sample_args, variational_samples, weight_sample, temp_sample,
          ensemble_weight_sample, step, elbo_value, variables_finite, fitted,
          X, X_new, f_sample, ridge_factor, f_new_sample,
          variational_rv_dict, kl, target_binding, state_slices, prior_ls,
          posterior_ls, raw_weights_dict, parent_temp_dict,
          weight_gp_sample_dict_val, temp_sample_dict_val>>

inputs == <<call, family_tree, base_pred, family_name, arg_order,
            weight_sample, temp_sample, X, X_new, f_sample, ridge_factor,
            weight_gp_sample_dict_val, temp_sample_dict_val>>
results == <<cond_weights_dict, ensemble_weights, ensemble_model_names,
             ensemble_mean, ensemble_sample>>
driver == <<cond_weight_temp_names, node_weight_names, initial_state,
            target_binding, state_slices, prior_ls>>
prediction == <<posterior_ls, raw_weights_dict, parent_temp_dict>>
variational == <<variational_params, sample_args, variational_samples>>
flat == <<ensemble_weight_sample>>
training == <<step, elbo_value, variables_finite, fitted>>
extrapolation == <<f_new_sample>>
vi_graph == <<variational_rv_dict, kl>>

NoResults ==
    /\ trace = <<>> /\ err = "none" /\ err_key = ""
    /\ cond_weights_dict = <<>> /\ ensemble_weights = <<>>
    /\ ensemble_model_names = <<>> /\ ensemble_mean = <<>>
    /\ ensemble_sample = <<>>
    /\ cond_weight_temp_names = <<>> /\ node_weight_names = <<>>
    /\ initial_state = <<>>
    /\ variational_params = <<>> /\ sample_args = <<>>
    /\ variational_samples = <<>>
    /\ ensemble_weight_sample = <<>>
    /\ step = 0 /\ elbo_value = "none" /\ variables_finite = TRUE
    /\ fitted = "none"
    /\ f_new_sample = <<>>
    /\ variational_rv_dict = <<>> /\ kl = <<>>
    /\ target_binding = <<>> /\ state_slices = <<>> /\ prior_ls = <<>>
    /\ posterior_ls = <<>> /\ raw_weights_dict = <<>> /\ parent_temp_dict = <<>>

\* the calls that are not part of the VI driver
NoFamily == family_name = "" /\ arg_order = ""

\* the calls that take no posterior samples of a flat ensemble
NoSamples == weight_sample = <<>> /\ temp_sample = <<>>

NoLatents ==
    /\ weight_gp_dict = <<>> /\ temp_dict = <<>> /\ resid_gp_sample = <<>>
    /\ NoSamples

LeafSet(tree) == get_nonroot_node_names(tree) \ get_parent_node_names(tree)

\* the arguments of one call of sample_posterior_tailfree
InitSamplePosterior ==
    /\ call = "sample_posterior_tailfree"
    /\ family_tree \in FamilyTrees
    /\ base_pred \in BasePredDicts(LeafSet(family_tree), {<<NumPoints>>})
    /\ weight_gp_dict \in [get_nonroot_node_names(family_tree) -> RawVectors]
    /\ temp_dict \in [get_parent_node_names(family_tree) -> Temperatures]
    /\ resid_gp_sample \in ResidVectors
    /\ NoFamily
    /\ NoSamples

\* a base model that is in no family tree
ExtraModelName == NodeNames[MaxNodes + 1]

\* the key sets of a base_pred that does not match the leaves of a tree: a
\* base model more than the leaves, or one leaf without a prediction
UnmatchedKeySets(tree) ==
    {LeafSet(tree) \cup {ExtraModelName}} \cup {LeafSet(tree) \ {n} : n \in LeafSet(tree)}

\* well-shaped base_pred dicts over such key sets, the keys in NodeNames order
UnmatchedBasePredDicts(tree) ==
    {LET order == SelectSeq(NodeNames, LAMBDA n : n \in K)
     IN  [i \in DOMAIN order |->
            <<order[i], Array(<<NumPoints>>, PredictionOf(order[i], NumPoints))>>] :
        K \in UnmatchedKeySets(tree)}

\* the arguments of one call of model_tailfree; the latents are drawn in the call
InitModelTailfree ==
    /\ call = "model_tailfree"
    /\ family_tree \in FamilyTrees
    /\ \/ base_pred \in BasePredDicts(LeafSet(family_tree), ShapeChoices)
       \/ base_pred \in UnmatchedBasePredDicts(family_tree)
    /\ NoLatents
    /\ NoFamily

\* the arguments of one call of model_flat: no tree (None) or a tree
InitModelFlat ==
    /\ call = "model_flat"
    /\ \/ /\ family_tree = <<>>
          /\ \E k \in 1..MaxNodes :
                base_pred \in BasePredDicts({NodeNames[i] : i \in 1..k}, ShapeChoices)
       \/ /\ family_tree \in FamilyTrees
          /\ base_pred \in BasePredDicts(LeafSet(family_tree), ShapeChoices)
    /\ NoLatents
    /\ NoFamily

\* the MCMC driver building its graph for a tree
InitMcmcGraph ==
    /\ call = "mcmc_graph"
    /\ family_tree \in FamilyTrees
    /\ base_pred \in BasePredDicts(LeafSet(family_tree), {<<NumPoints>>})
    /\ NoLatents
    /\ NoFamily

\* the MCMC driver of the 2-D experiment building its graph; its tree is the
\* flat one, {root: list(base_test_pred.keys())}
InitMcmcGraph2d ==
    /\ call = "mcmc_graph_2d"
    /\ family_tree \in {t \in FamilyTrees : DOMAIN t = {ROOT_NODE_DEFAULT_NAME}}
    /\ base_pred \in BasePredDicts(LeafSet(family_tree), {<<NumPoints>>})
    /\ NoLatents
    /\ NoFamily

\* the VI driver: "for family_name in ['mfvi', 'sgpr']", and the two ways of
\* handing the trained parameters to the sampling function: in the order
\* variational_family returns them, or in the order the driver writes out
InitVariationalFamily ==
    /\ call = "variational_family"
    /\ family_tree \in FamilyTrees
    /\ base_pred \in BasePredDicts(LeafSet(family_tree), {<<NumPoints>>})
    /\ Keys(base_pred) = SelectSeq(NodeNames, LAMBDA n : n \in LeafSet(family_tree))
    /\ family_name \in {"mfvi", "sgpr"}
    /\ arg_order \in {"returned", "driver"}
    /\ NoLatents

\* the sample counts of the flat posterior functions
SampleCounts == {1, 2, 3}

\* the number of base models of the flat posterior samples
FlatModels == {1, 2}

\* the raw weight of model k in sample s at point pt
RawSampleValue(v, k, s, pt) == (v + k + s + pt) % Cardinality(RawValues)

\* weight_sample as a list: one array of shape (N_sample, N_obs) per model
WeightSampleList(v, n_sample) ==
    [kind |-> "list",
     data |-> [k \in FlatModels |-> [s \in 1..n_sample |->
                [pt \in Points |-> RawSampleValue(v, k, s, pt)]]]]

\* weight_sample as an np.ndarray of shape (N_sample, N_obs, K)
WeightSampleArray(v, n_sample) ==
    [kind |-> "ndarray",
     data |-> [s \in 1..n_sample |-> [pt \in Points |->
                [k \in FlatModels |-> RawSampleValue(v, k, s, pt)]]]]

\* the arguments of one call of sample_posterior_weight_flat
InitSamplePosteriorWeightFlat ==
    /\ call = "sample_posterior_weight_flat"
    /\ family_tree = <<>> /\ base_pred = <<>>
    /\ weight_gp_dict = <<>> /\ temp_dict = <<>> /\ resid_gp_sample = <<>>
    /\ NoFamily
    /\ \E v \in RawValues, n_sample \in SampleCounts :
          weight_sample \in {WeightSampleList(v, n_sample), WeightSampleArray(v, n_sample)}
    /\ \E t \in Temperatures, n_sample \in SampleCounts :
          temp_sample = [s \in 1..n_sample |-> t]

\* the VI driver at "sess.run(init_op)", for either family
InitTraining ==
    /\ call = "vi_training"
    /\ family_tree = <<>> /\ base_pred = <<>>
    /\ NoLatents
    /\ family_name \in {"mfvi", "sgpr"}
    /\ arg_order = ""

\* the VI driver setting up the graph of the objective for a tree, for
\* either family
\* the driver's call of ensemble_variational_family, on the inputs of the
\* objective
InitFamilyCall ==
    /\ call = "vi_family_call"
    /\ family_tree \in FamilyTrees
    /\ base_pred \in BasePredDicts(LeafSet(family_tree), {<<NumPoints>>})
    /\ Keys(base_pred) = SelectSeq(NodeNames, LAMBDA n : n \in LeafSet(family_tree))
    /\ family_name \in {"mfvi", "sgpr"}
    /\ arg_order = ""
    /\ NoLatents

InitViGraph ==
    /\ call = "vi_graph"
    /\ family_tree \in FamilyTrees
    /\ base_pred \in BasePredDicts(LeafSet(family_tree), {<<NumPoints>>})
    /\ Keys(base_pred) = SelectSeq(NodeNames, LAMBDA n : n \in LeafSet(family_tree))
    /\ family_name \in {"mfvi", "sgpr"}
    /\ arg_order = ""
    /\ NoLatents

\* the calls that read no dictionaries of variational samples
NoSampleDicts == weight_gp_sample_dict_val = <<>> /\ temp_sample_dict_val = <<>>

\* tail_free.BASE_WEIGHT_NAME_PREFIX and tail_free.TEMP_NAME_PREFIX
BASE_WEIGHT_NAME_PREFIX == "base_weight"
TEMP_NAME_PREFIX == "temp"

\* _EXAMPLE_DICTIONARY_SIMPLE with fewer leaves, and trees whose node names
\* come close to the prefixes or contain one
ExampleTrees ==
    { [root |-> <<"rbf", "rquad">>, rbf |-> <<"rbf_0.2", "rbf_0.05">>,
       rquad |-> <<"rquad1_0.1">>],
      [root |-> <<"a", "b">>],
      [root |-> <<"temp", "base_weight">>, temp |-> <<"a", "_">>],
      [root |-> <<"temp_a", "a">>, temp_a |-> <<"b">>, a |-> <<"c">>],
      [root |-> <<"base_weight_b", "b">>] }

\* a dict of samples under the given keys; each sample is identified with the
\* key it was drawn for
SampleDict(keys) == [i \in DOMAIN keys |-> <<keys[i], keys[i]>>]

\* the keys of the dict the variational family returns for a set of nodes
FamilyKeys(prefix, nodes) ==
    LET order == CHOOSE e \in Enumerations(nodes) : TRUE
    IN  [i \in DOMAIN order |-> prefix \o "_" \o order[i]]

\* keys that are not the prefix followed by a node name
MalformedKeys(prefix, nodes) ==
    UNION {{n, prefix \o "_" \o prefix \o "_" \o n, n \o prefix \o "_",
            prefix \o n, "x" \o prefix \o "_" \o n} : n \in nodes}
        \cup {prefix \o "_", prefix \o "_zz", "zz"}

\* the family's keys, or these with one key replaced by a malformed key, or
\* with a malformed key added
KeyLists(prefix, nodes) ==
    LET keys == FamilyKeys(prefix, nodes)
        bad == MalformedKeys(prefix, nodes) \ Range(keys)
    IN  {keys}
        \cup {[keys EXCEPT ![i] = b] : i \in DOMAIN keys, b \in bad}
        \cup {Append(keys, b) : b \in bad}

\* the prediction stage of the VI experiment for a tree and the two loaded
\* dicts of samples, at most one of which has a malformed key
InitViPrediction ==
    /\ call = "vi_prediction"
    /\ family_tree \in ExampleTrees
    /\ base_pred = <<>>
    /\ NoLatents /\ NoFamily
    /\ LET nodes == get_nonroot_node_names(family_tree)
           parents == get_parent_node_names(family_tree)
           wkeys == FamilyKeys(BASE_WEIGHT_NAME_PREFIX, nodes)
           tkeys == FamilyKeys(TEMP_NAME_PREFIX, parents)
       IN  \/ \E wk \in KeyLists(BASE_WEIGHT_NAME_PREFIX, nodes) :
                /\ weight_gp_sample_dict_val = SampleDict(wk)
                /\ temp_sample_dict_val = SampleDict(tkeys)
           \/ \E tk \in KeyLists(TEMP_NAME_PREFIX, parents) :
                /\ weight_gp_sample_dict_val = SampleDict(wkeys)
                /\ temp_sample_dict_val = SampleDict(tk)

\* the calls that extrapolate no GP samples
NoObservations == X = <<>> /\ X_new = <<>> /\ f_sample = <<>> /\ ridge_factor = <<>>

\* observed locations: one point, or two points at distance 1 or 2
ObservedLocations == {<<0>>, <<0, 1>>, <<0, 2>>}

\* ridge factors, down to 0
RidgeFactors == {<<1, 1>>, <<1, 2>>, <<1, 8>>, <<0, 1>>}

\* samples of f at n locations: one or two vectors of values 1 and 2
FunctionSamples(n) ==
    LET vectors == [1..n -> {1, 2}]
    IN  {<<f>> : f \in vectors} \cup {<<f, g>> : f \in vectors, g \in vectors}

\* the arguments of one call of gp.sample_posterior_full: the new locations
\* are the observed ones, or the single location 1
InitSamplePosteriorFull ==
    /\ call = "sample_posterior_full"
    /\ family_tree = <<>> /\ base_pred = <<>>
    /\ NoLatents /\ NoFamily
    /\ X \in ObservedLocations
    /\ X_new \in {X, <<1>>}
    /\ f_sample \in FunctionSamples(Len(X))
    /\ ridge_factor \in RidgeFactors

Init ==
    /\ pc = "start"
    /\ NoResults
    /\ \/ /\ \/ InitSamplePosterior
             \/ InitModelTailfree
             \/ InitModelFlat
             \/ InitMcmcGraph
             \/ InitVariationalFamily
             \/ InitSamplePosteriorWeightFlat
             \/ InitTraining
             \/ InitViGraph
             \/ InitMcmcGraph2d
             \/ InitFamilyCall
          /\ NoObservations /\ NoSampleDicts
       \/ InitSamplePosteriorFull /\ NoSampleDicts
       \/ InitViPrediction /\ NoObservations

(* ----------------- adaptive_ensemble: sample_posterior_tailfree ---------- *)
\* mutant: an entry for the root, of weight 1, added to the dictionary
cond_weight_tensors_dict_with_root(tree, weight_gp, temp) ==
    [n \in get_nonroot_node_names(tree) \cup {ROOT_NODE_DEFAULT_NAME} |->
        IF n = ROOT_NODE_DEFAULT_NAME THEN [pt \in Points |-> ROne]
        ELSE compute_cond_weights(tree, weight_gp, temp)[n]]

\* mutant: the raw weights handed on in place of the conditional weights
cond_weight_tensors_dict_raw(tree, weight_gp, temp) ==
    [n \in DOMAIN weight_gp |-> [pt \in Points |-> RInt(weight_gp[n][pt])]]

cond_weight_tensors_dict(tree, weight_gp, temp) ==
    compute_cond_weights(tree, weight_gp, temp)

\* mutant: every leaf gets its own conditional weight, not composed with the
\* weights of its ancestors
ensemble_weight_tensors_uncomposed(cond_weight_tensors, tree) ==
    LET names == get_leaf_model_names(tree)
    IN  << [pt \in Points |-> [j \in DOMAIN names |-> cond_weight_tensors[names[j]][pt]]],
           names >>

\* <<ensemble_weight_tensors, ensemble_model_names>>
ensemble_weight_tensors(cond_weight_tensors, tree) ==
    compute_leaf_weights(cond_weight_tensors, tree)

\* mutant: the predictions taken in the key order of base_pred_dict
base_model_pred_values(base_pred_dict, model_names) ==
    [pt \in Points |->
        [j \in DOMAIN model_names |-> base_pred_dict[j][2].data[pt]]]

\* the predictions of the named models, transposed to points x models
base_model_pred(base_pred_dict, model_names) ==
    [pt \in Points |->
        [j \in DOMAIN model_names |-> Lookup(base_pred_dict, model_names[j]).data[pt]]]

\* tf.reduce_sum(tf.multiply(F, W), axis=-1)
ensemble_mean_tensor(F, W) ==
    [pt \in Points |-> RSum([j \in DOMAIN W[pt] |-> RMul(RInt(F[pt][j]), W[pt][j])])]

AddResidual(mean, resid) == [pt \in Points |-> RAdd(mean[pt], RInt(resid[pt]))]

\* mutant: the first two returned values in the other order
sample_posterior_tailfree_mean_first(base_pred_dict, tree, weight_gp, temp, resid) ==
    LET cw == cond_weight_tensors_dict(tree, weight_gp, temp)
        lw == ensemble_weight_tensors(cw, tree)
        mean == Eval(ensemble_mean_tensor(base_model_pred(base_pred_dict, lw[2]), lw[1]))
    IN  <<mean, AddResidual(mean, resid), lw[1], cw, lw[2]>>

\* mutant: the keys of base_pred_dict returned as the leaf-name list
sample_posterior_tailfree_keys(base_pred_dict, tree, weight_gp, temp, resid) ==
    LET cw == cond_weight_tensors_dict(tree, weight_gp, temp)
        lw == ensemble_weight_tensors(cw, tree)
        mean == Eval(ensemble_mean_tensor(base_model_pred(base_pred_dict, lw[2]), lw[1]))
    IN  <<AddResidual(mean, resid), mean, lw[1], cw, Keys(base_pred_dict)>>

\* the five values the function returns, in the order of its return statement
sample_posterior_tailfree(base_pred_dict, tree, weight_gp, temp, resid) ==
    LET cw == cond_weight_tensors_dict(tree, weight_gp, temp)
        lw == ensemble_weight_tensors(cw, tree)
        mean == Eval(ensemble_mean_tensor(base_model_pred(base_pred_dict, lw[2]), lw[1]))
    IN  <<AddResidual(mean, resid), mean, lw[1], cw, lw[2]>>

SamplePosteriorTailfree ==
    /\ call = "sample_posterior_tailfree" /\ pc = "start"
    /\ \E ret \in {sample_posterior_tailfree(base_pred, family_tree, weight_gp_dict,
                                             temp_dict, resid_gp_sample)} :
        /\ ensemble_sample' = ret[1]
        /\ ensemble_mean' = ret[2]
        /\ ensemble_weights' = ret[3]
        /\ cond_weights_dict' = ret[4]
        /\ ensemble_model_names' = ret[5]
    /\ pc' = "done"
    /\ UNCHANGED <<inputs, prediction, extrapolation, vi_graph, variational, flat, training, weight_gp_dict, temp_dict, resid_gp_sample,
                   trace, err, err_key, driver>>

(* ------------------------ adaptive_ensemble: models --------------------- *)
\* mutant: only the length of the first axis is compared with N
MismatchedEntries_first_axis(bp) ==
    {i \in DOMAIN bp : ~(bp[i][2].shape[1] = NumPoints)}

\* the dimension check of model_flat and model_tailfree: the positions of the
\* entries of base_pred whose shape is not (N,)
MismatchedEntries(bp) == {i \in DOMAIN bp : ~(bp[i][2].shape = <<NumPoints>>)}

Min(S) == CHOOSE m \in S : \A n \in S : m <= n

\* the elements of a set of node names, root first, then in NodeNames order
Sorted(S) ==
    LET all == <<ROOT_NODE_DEFAULT_NAME>> \o NodeNames
    IN  SelectSeq(all, LAMBDA n : n \in S)

\* tail_free.prior: the random variables it declares for a tree
PriorNames(tree) ==
    LET parents == Sorted(get_parent_node_names(tree))
        nodes == Sorted(get_nonroot_node_names(tree))
    IN  [i \in DOMAIN parents |-> "temp_" \o parents[i]]
        \o [i \in DOMAIN nodes |-> "base_weight_" \o nodes[i]]

\* tail_free.prior: <<leaf weights, leaf names>> of the declared latents
prior(tree, raw_weights, temps) ==
    compute_leaf_weights(compute_cond_weights(tree, raw_weights, temps), tree)

RaiseValueError(key) ==
    /\ err' = "ValueError"
    /\ err_key' = key
    /\ UNCHANGED <<weight_gp_dict, temp_dict, resid_gp_sample, trace, results>>

\* mutant: a base model that is no leaf of the tree is reported as well
MissingLeaves_or_extra(bp, model_names) ==
    SelectSeq(model_names, LAMBDA n : ~HasKey(bp, n))
    \o SelectSeq(Keys(bp), LAMBDA k : k \notin Range(model_names))

\* [base_pred[name] for name in model_names]: the names whose lookup in
\* base_pred fails, in the order of the lookups
MissingLeaves(bp, model_names) == SelectSeq(model_names, LAMBDA n : ~HasKey(bp, n))

\* the KeyError of the first failing lookup, after tail_free.prior has
\* declared its random variables
RaiseKeyError(key) ==
    /\ err' = "KeyError"
    /\ err_key' = key
    /\ trace' = PriorNames(family_tree)
    /\ UNCHANGED <<weight_gp_dict, temp_dict, resid_gp_sample, results>>

\* model_tailfree past the dimension check, for the values w, t, r of the
\* latents: <<loc of y, ensemble_mean, ensemble_weights, model_names>>
model_tailfree(bp, tree, w, t, r) ==
    LET lw == prior(tree, w, t)
        model_names == lw[2]
        base_models == base_model_pred(bp, model_names)
        mean == Eval(ensemble_mean_tensor(base_models, lw[1]))
    IN  <<AddResidual(mean, r), mean, lw[1], model_names>>

ModelTailfree ==
    /\ call = "model_tailfree" /\ pc = "start"
    /\ IF MismatchedEntries(base_pred) # {}
       THEN RaiseValueError(base_pred[Min(MismatchedEntries(base_pred))][1])
       ELSE IF MissingLeaves(base_pred, get_leaf_model_names(family_tree)) # <<>>
       THEN RaiseKeyError(MissingLeaves(base_pred, get_leaf_model_names(family_tree))[1])
       ELSE \E w \in [get_nonroot_node_names(family_tree) -> RawVectors],
               t \in [get_parent_node_names(family_tree) -> Temperatures],
               r \in ResidVectors :
            \E ret \in {model_tailfree(base_pred, family_tree, w, t, r)} :
                /\ weight_gp_dict' = w
                /\ temp_dict' = t
                /\ resid_gp_sample' = r
                /\ trace' = PriorNames(family_tree)
                              \o <<"ensemble_resid", "sigma", "y">>
                /\ ensemble_sample' = ret[1]
                /\ ensemble_mean' = ret[2]
                /\ ensemble_weights' = ret[3]
                /\ ensemble_model_names' = ret[4]
                /\ UNCHANGED <<err, err_key, cond_weights_dict>>
    /\ pc' = "done"
    /\ UNCHANGED <<inputs, prediction, extrapolation, vi_graph, variational, flat, training, driver>>

\* mutant: the test of the tree left out
HasFamilyTree_never(tree) == FALSE

\* sparse_conditional_weight: "if family_tree:", false for None and for {}
HasFamilyTree(tree) == DOMAIN tree # {}

\* F = np.asarray(list(base_pred.values())).T
ValuesMatrix(bp) == [pt \in Points |-> [j \in DOMAIN bp |-> bp[j][2].data[pt]]]

\* sparse_conditional_weight without a tree: one GP per key of base_pred,
\* stacked in key order, through the link function
W_raw(bp, raw_weights) ==
    [pt \in Points |-> [j \in DOMAIN bp |-> raw_weights[bp[j][1]][pt]]]

FlatWeightNames(bp) == [j \in DOMAIN bp |-> "base_weight_" \o bp[j][1]]

\* model_flat without a tree, past the dimension check, for the values w, t, r
\* of the latents: <<loc of y, ensemble_mean, W>>
model_flat(bp, w, t, r) ==
    LET W == Eval(link_func(W_raw(bp, w), Exp(t)))
        mean == Eval(ensemble_mean_tensor(ValuesMatrix(bp), W))
    IN  <<AddResidual(mean, r), mean, W>>

\* the random variables model_flat declares before it asks for the weights
DeclaredBeforeWeights_none == <<>>
DeclaredBeforeWeights == <<"temp">>

\* with a tree, temp is a vector holding one entry per key of the tree
TreeTemperatures(tree) == [1..Cardinality(DOMAIN tree) -> Temperatures]

ModelFlat ==
    /\ call = "model_flat" /\ pc = "start"
    /\ IF MismatchedEntries(base_pred) # {}
       THEN RaiseValueError(base_pred[Min(MismatchedEntries(base_pred))][1])
       ELSE IF HasFamilyTree(family_tree)
       THEN \E t \in TreeTemperatures(family_tree) :
            /\ temp_dict' = [n \in Range(DeclaredBeforeWeights) |-> t]
            /\ trace' = DeclaredBeforeWeights
            /\ err' = "NotImplementedError"
            /\ UNCHANGED <<err_key, weight_gp_dict, resid_gp_sample, results>>
       ELSE \E w \in [Range(Keys(base_pred)) -> RawVectors],
               t \in Temperatures, r \in ResidVectors :
            \E ret \in {model_flat(base_pred, w, t, r)} :
                /\ weight_gp_dict' = w
                /\ temp_dict' = [n \in {"temp"} |-> t]
                /\ resid_gp_sample' = r
                /\ trace' = DeclaredBeforeWeights \o FlatWeightNames(base_pred)
                              \o <<"ensemble_resid", "sigma", "y">>
                /\ ensemble_sample' = ret[1]
                /\ ensemble_mean' = ret[2]
                /\ ensemble_weights' = ret[3]
                /\ UNCHANGED <<err, err_key, cond_weights_dict, ensemble_model_names>>
    /\ pc' = "done"
    /\ UNCHANGED <<inputs, prediction, extrapolation, vi_graph, variational, flat, training, driver>>

(* ------------------------------ python calls ---------------------------- *)
\* a call binds its keyword arguments when each names a parameter
Accepts(parameters, keywords) == keywords \subseteq parameters

\* what a signature ending in **kwargs accepts of the keywords of a call:
\* its named parameters and every other keyword
WithKwargs(parameters, keywords) == parameters \cup keywords

\* "(a, b, ...) = values" binds when there are as many targets as values
Unpacks(targets, values) == Len(targets) = Len(values)

\* the outcome of a call made with keywords and unpacked into targets: a
\* keyword the callee does not take is a TypeError raised by the call, a
\* count of targets other than the count of values a ValueError raised after it
CallOutcome(parameters, keywords, targets, values, before) ==
    IF ~Accepts(parameters, keywords) THEN "TypeError"
    ELSE IF ~Unpacks(targets, values) THEN "ValueError"
    ELSE before

(* ------------------------------ python dicts ---------------------------- *)
\* the items of a dict, in the order the dict enumerates them
Items(d) ==
    LET order == CHOOSE e \in Enumerations(DOMAIN d) : TRUE
    IN  [i \in DOMAIN order |-> <<order[i], d[order[i]]>>]

\* d[key] = value: the value of an existing key is replaced in place, a new
\* key is added at the end
SetItem(d, key, value) ==
    IF HasKey(d, key)
    THEN [i \in DOMAIN d |-> IF d[i][1] = key THEN <<key, value>> ELSE d[i]]
    ELSE Append(d, <<key, value>>)

RECURSIVE UpdateTo(_, _, _)
UpdateTo(d, items, n) ==
    IF n = 0 THEN d
    ELSE SetItem(UpdateTo(d, items, n - 1), items[n][1], items[n][2])

\* mutant: the dict replaced by the items
Update_replacing(d, items) == items

\* d.update(items)
Update(d, items) == UpdateTo(d, items, Len(items))

\* zip(a, b): pairs up to the end of the shorter sequence
Zip(a, b) ==
    [i \in 1..(IF Len(a) <= Len(b) THEN Len(a) ELSE Len(b)) |-> <<a[i], b[i]>>]

\* dict(zip(a, b))
DictOfZip(a, b) == Update(<<>>, Zip(a, b))

(* ----------------------- example driver: MCMC graph --------------------- *)
\* np.log(0.15) and np.log(0.2), as logarithms to the base 2 of the nearest
\* powers of two
DEFAULT_LOG_LS_WEIGHT == 0 - 3
DEFAULT_LOG_LS_RESID == 0 - 2

\* np.exp, to the base 2 as Exp
np_exp(t) == IF t >= 0 THEN <<Pow2(t), 1>> ELSE <<1, Pow2(0 - t)>>

\* ['temp_{}'.format(n) for n in tail_free.get_parent_node_names(tree)],
\* the set enumerated in the order names
TempNames(names) == [i \in DOMAIN names |-> "temp_" \o names[i]]

\* ['base_weight_{}'.format(n) for n in tail_free.get_nonroot_node_names(tree)]
WeightNames(names) == [i \in DOMAIN names |-> "base_weight_" \o names[i]]

\* mutant: the temperature names built from the non-root nodes
TempNameSource_nonroot(tree) == get_nonroot_node_names(tree)

\* the nodes the driver gives a temperature latent
TempNameSource(tree) == get_parent_node_names(tree)

\* mutant: the weight names built from the parent nodes
WeightNameSource_parents(tree) == get_parent_node_names(tree)

\* the nodes the driver gives a weight-GP latent
WeightNameSource(tree) == get_nonroot_node_names(tree)

\* the shapes of the chain state: sigma, residual GP, temperatures, weight GPs
InitialStateShapes(temp_names, weight_names) ==
    << <<>>, <<NumPoints>> >>
    \o [i \in DOMAIN temp_names |-> <<>>]
    \o [i \in DOMAIN weight_names |-> <<NumPoints>>]

\* the positions of the chain state handed to target_log_prob_fn after sigma
\* and ensemble_resid
node_specific_positional_args(n_state) == [i \in 1..(n_state - 2) |-> i + 2]

\* the keyword arguments of log_joint that name latents: sigma and
\* ensemble_resid are the first two positions, the others are
\* dict(zip(node_specific_varnames, node_specific_positional_args))
target_log_prob_fn(node_specific_varnames, n_state) ==
    << <<"sigma", 1>>, <<"ensemble_resid", 2>> >>
        \o DictOfZip(node_specific_varnames, node_specific_positional_args(n_state))

\* mutant: the draws sliced at the number of weight names
StateSlices_at_weights(n_state, n_temp, n_weight) ==
    [sigma |-> 1, ensemble_resid |-> 2,
     temp |-> [i \in 1..n_weight |-> 2 + i],
     weight |-> [i \in 1..(n_state - 2 - n_weight) |-> 2 + n_weight + i]]

\* state[:2], state[2:2 + len(cond_weight_temp_names)] and
\* state[2 + len(cond_weight_temp_names):]
StateSlices(n_state, n_temp, n_weight) ==
    [sigma |-> 1, ensemble_resid |-> 2,
     temp |-> [i \in 1..n_temp |-> 2 + i],
     weight |-> [i \in 1..(n_state - 2 - n_temp) |-> 2 + n_temp + i]]

\* ls_weight=DEFAULT_LOG_LS_WEIGHT, ls_resid=DEFAULT_LOG_LS_RESID
PriorLengthscales ==
    [ls_weight |-> RInt(DEFAULT_LOG_LS_WEIGHT), ls_resid |-> RInt(DEFAULT_LOG_LS_RESID)]

McmcGraph ==
    /\ call = "mcmc_graph" /\ pc = "start"
    /\ \E tn \in Enumerations(TempNameSource(family_tree)),
          wn \in Enumerations(WeightNameSource(family_tree)) :
        \E state \in {InitialStateShapes(TempNames(tn), WeightNames(wn))} :
            /\ cond_weight_temp_names' = TempNames(tn)
            /\ node_weight_names' = WeightNames(wn)
            /\ initial_state' = state
            /\ target_binding' =
                  target_log_prob_fn(TempNames(tn) \o WeightNames(wn), Len(state))
            /\ state_slices' = StateSlices(Len(state), Len(tn), Len(wn))
            /\ prior_ls' = PriorLengthscales
    /\ pc' = "done"
    /\ UNCHANGED <<inputs, prediction, extrapolation, vi_graph, variational, flat, training, weight_gp_dict, temp_dict, resid_gp_sample,
                   trace, err, err_key, results>>

\* the 2-D driver: the shapes of the chain state, which begins with the two
\* lengthscales
InitialStateShapes2d(temp_names, weight_names) ==
    << <<>>, <<>>, <<>>, <<NumPoints>> >>
    \o [i \in DOMAIN temp_names |-> <<>>]
    \o [i \in DOMAIN weight_names |-> <<NumPoints>>]

\* the 2-D driver: target_log_prob_fn(ls_weight, ls_resid, sigma,
\* ensemble_resid, *node_specific_positional_args)
target_log_prob_fn_2d(node_specific_varnames, n_state) ==
    << <<"ls_weight", 1>>, <<"ls_resid", 2>>, <<"sigma", 3>>, <<"ensemble_resid", 4>> >>
        \o DictOfZip(node_specific_varnames, [i \in 1..(n_state - 4) |-> i + 4])

\* the 2-D driver: state[:4], state[4:4 + len(cond_weight_temp_names)] and
\* state[4 + len(cond_weight_temp_names):]
StateSlices2d(n_state, n_temp, n_weight) ==
    [ls_weight |-> 1, ls_resid |-> 2, sigma |-> 3, ensemble_resid |-> 4,
     temp |-> [i \in 1..n_temp |-> 4 + i],
     weight |-> [i \in 1..(n_state - 4 - n_temp) |-> 4 + n_temp + i]]

\* the 2-D driver: ls_weight=ls_weight, ls_resid=ls_resid, the first two
\* entries of the chain state
PriorLengthscales2d == [ls_weight |-> "ls_weight", ls_resid |-> "ls_resid"]

McmcGraph2d ==
    /\ call = "mcmc_graph_2d" /\ pc = "start"
    /\ \E tn \in Enumerations(TempNameSource(family_tree)),
          wn \in Enumerations(WeightNameSource(family_tree)) :
        \E state \in {InitialStateShapes2d(TempNames(tn), WeightNames(wn))} :
            /\ cond_weight_temp_names' = TempNames(tn)
            /\ node_weight_names' = WeightNames(wn)
            /\ initial_state' = state
            /\ target_binding' =
                  target_log_prob_fn_2d(TempNames(tn) \o WeightNames(wn), Len(state))
            /\ state_slices' = StateSlices2d(Len(state), Len(tn), Len(wn))
            /\ prior_ls' = PriorLengthscales2d
    /\ pc' = "done"
    /\ UNCHANGED <<inputs, prediction, extrapolation, vi_graph, variational, flat,
                   training, weight_gp_dict, temp_dict, resid_gp_sample,
                   trace, err, err_key, results>>

\* the keyword arguments of the drivers' calls of sample_posterior_tailfree
PosteriorCallKeywords ==
    {"X", "base_pred_dict", "family_tree", "weight_gp_dict", "temp_dict",
     "resid_gp_sample", "log_ls_weight"}

\* the parameters of sample_posterior_tailfree, which takes no **kwargs
sample_posterior_tailfree_parameters ==
    {"X", "base_pred_dict", "family_tree", "weight_gp_dict", "temp_dict",
     "resid_gp_sample", "kernel_func", "ls_weight", "link_func", "ridge_factor"}

\* the values sample_posterior_tailfree returns
sample_posterior_tailfree_returns ==
    <<"ensemble_sample", "ensemble_mean", "ensemble_weights", "cond_weights_dict",
      "ensemble_model_names">>

\* the targets the drivers unpack the result of sample_posterior_tailfree into
PosteriorTargets ==
    <<"ensemble_sample_val", "ensemble_mean_val", "ensemble_weights_val",
      "cond_weights_dict_val", "ensemble_model_names">>

\* the outcome of the drivers' call of sample_posterior_tailfree
PosteriorCallOutcome(before) ==
    CallOutcome(sample_posterior_tailfree_parameters, PosteriorCallKeywords,
                PosteriorTargets, sample_posterior_tailfree_returns, before)

\* ls=np.exp(DEFAULT_LOG_LS_WEIGHT) and ls=np.exp(DEFAULT_LOG_LS_RESID)
PosteriorLengthscales ==
    [ls_weight |-> np_exp(DEFAULT_LOG_LS_WEIGHT), ls_resid |-> np_exp(DEFAULT_LOG_LS_RESID)]

\* the prediction stage of the MCMC experiment: the draws of each weight GP
\* are extrapolated in the order of the chain state, then zipped with the
\* node names as the two sets enumerate them on these calls, and handed to
\* sample_posterior_tailfree; a keyword the function does not take is a
\* TypeError
McmcPrediction ==
    /\ call = "mcmc_graph" /\ pc = "done"
    /\ Cardinality(get_nonroot_node_names(family_tree)) <= MaxPredictionNodes
    /\ posterior_ls' = PosteriorLengthscales
    /\ \E wn \in Enumerations(get_nonroot_node_names(family_tree)),
          tn \in Enumerations(get_parent_node_names(family_tree)) :
        /\ raw_weights_dict' = DictOfZip(wn, state_slices.weight)
        /\ parent_temp_dict' = DictOfZip(tn, state_slices.temp)
    /\ err' = PosteriorCallOutcome(err)
    /\ pc' = "predicted"
    /\ UNCHANGED <<inputs, extrapolation, vi_graph, variational, flat, training,
                   weight_gp_dict, temp_dict, resid_gp_sample, trace, err_key,
                   results, driver>>

(* ---------------------- example driver: VI prediction ------------------- *)
\* str.replace(old, new): every occurrence of old, found from the left and
\* not overlapping, is replaced
RECURSIVE replace(_, _, _)
replace(str, old, new) ==
    IF Len(str) < Len(old) THEN str
    ELSE IF SubSeq(str, 1, Len(old)) = old
         THEN new \o replace(SubSeq(str, Len(old) + 1, Len(str)), old, new)
         ELSE SubSeq(str, 1, 1) \o replace(SubSeq(str, 2, Len(str)), old, new)

\* mutant: the prefix removed without the underscore that follows it
node_name_of_unjoined(model_name, prefix) == replace(model_name, prefix, "")

\* node_name = model_name.replace("{}_".format(prefix), "")
node_name_of(model_name, prefix) == replace(model_name, prefix \o "_", "")

\* the positions of the items whose node name fails the assertion
FailedAssertions(sample_dict, prefix, nodes) ==
    {i \in DOMAIN sample_dict : node_name_of(sample_dict[i][1], prefix) \notin nodes}

\* the dict built by a loop over the items until the first failed assertion
NodeDict(sample_dict, prefix, nodes) ==
    LET failed == FailedAssertions(sample_dict, prefix, nodes)
        n == IF failed = {} THEN Len(sample_dict) ELSE Min(failed) - 1
    IN  UpdateTo(<<>>, [i \in 1..n |-> <<node_name_of(sample_dict[i][1], prefix),
                                         sample_dict[i][2]>>], n)

\* the prediction stage of the VI experiment: a loop over the weight samples
\* and one over the temperature samples, each extracting the node name from
\* the key and asserting that it is a node of the tree, then the call of
\* sample_posterior_tailfree; a keyword the function does not take is a
\* TypeError
ViPrediction ==
    /\ call = "vi_prediction" /\ pc = "start"
    /\ LET nodes == get_nonroot_node_names(family_tree)
           parents == get_parent_node_names(family_tree)
           wfail == FailedAssertions(weight_gp_sample_dict_val, BASE_WEIGHT_NAME_PREFIX, nodes)
           tfail == FailedAssertions(temp_sample_dict_val, TEMP_NAME_PREFIX, parents)
       IN  /\ raw_weights_dict' =
                 NodeDict(weight_gp_sample_dict_val, BASE_WEIGHT_NAME_PREFIX, nodes)
           /\ parent_temp_dict' =
                 IF wfail # {} THEN parent_temp_dict
                 ELSE NodeDict(temp_sample_dict_val, TEMP_NAME_PREFIX, parents)
           /\ IF wfail # {}
              THEN /\ err' = "AssertionError"
                   /\ err_key' = weight_gp_sample_dict_val[Min(wfail)][1]
              ELSE IF tfail # {}
              THEN /\ err' = "AssertionError"
                   /\ err_key' = temp_sample_dict_val[Min(tfail)][1]
              ELSE /\ err' = PosteriorCallOutcome(err)
                   /\ err_key' = err_key
    /\ pc' = "done"
    /\ UNCHANGED <<inputs, extrapolation, vi_graph, variational, flat, training,
                   weight_gp_dict, temp_dict, resid_gp_sample, trace, results, driver,
                   posterior_ls>>

(* ------------------- adaptive_ensemble: variational family -------------- *)
\* gp.variational_mfvi / gp.variational_sgpr(X, ls, name): the random variable
\* and its two trainable parameters, <<rv, mean, vcov>>; the mean-field family
\* keeps a standard deviation per point, the sparse family a covariance matrix
gp_vi_family(family, name, v) ==
    LET mean == [pt \in Points |-> v]
        vcov == IF family = "mfvi" THEN [pt \in Points |-> 1]
                ELSE [pt \in Points |-> [q \in Points |-> IF pt = q THEN 1 ELSE 0]]
    IN  << [name |-> name, family |-> family, loc |-> mean, scale |-> vcov], mean, vcov >>

\* inference_util.scalar_gaussian_variational(name): <<rv, mean, sdev>>
scalar_gaussian_variational(name, v) ==
    << [name |-> name, family |-> "normal", loc |-> v, scale |-> 1], v, 1 >>

\* tail_free.variational_family: one GP of the chosen family per non-root node
\* and one scalar Normal per parent, keyed by the names of the model's latents:
\* <<weight_gp_dict, temp_dict, weight_gp_mean_dict, weight_gp_vcov_dict,
\*   temp_mean_dict, temp_sdev_dict>>
tail_free_variational_family(tree, family, v) ==
    LET wnames == {"base_weight_" \o n : n \in get_nonroot_node_names(tree)}
        tnames == {"temp_" \o n : n \in get_parent_node_names(tree)}
        w == [k \in wnames |-> gp_vi_family(family, k, v)]
        t == [k \in tnames |-> scalar_gaussian_variational(k, v)]
    IN  << [k \in wnames |-> w[k][1]], [k \in tnames |-> t[k][1]],
           [k \in wnames |-> w[k][2]], [k \in wnames |-> w[k][3]],
           [k \in tnames |-> t[k][2]], [k \in tnames |-> t[k][3]] >>

\* mutant: the residual GP always taken from the mean-field family
resid_gp_family_mfvi(family, v) == gp_vi_family("mfvi", "vi_ensemble_resid", v)

\* resid_gp, resid_gp_mean, resid_gp_vcov = gp_vi_family(X, ls=ls_resid, ...)
resid_gp_family(family, v) == gp_vi_family(family, "vi_ensemble_resid", v)

\* a trainable parameter (a tf.Variable or a dict of them): the object the
\* local variable of that name in variational_family refers to, and its value
Parameter(id, value) == [id |-> id, value |-> value]

\* the 12 values variational_family returns, in the order of its return
\* statement
variational_family(tree, family, v) ==
    LET tf == tail_free_variational_family(tree, family, v)
        resid == resid_gp_family(family, v)
        sigma == scalar_gaussian_variational("sigma", v)
    IN  << tf[1], resid[1], tf[2], sigma[1],
           Parameter("weight_gp_mean_dict", tf[3]), Parameter("weight_gp_vcov_dict", tf[4]),
           Parameter("resid_gp_mean", resid[2]), Parameter("resid_gp_vcov", resid[3]),
           Parameter("temp_mean_dict", tf[5]), Parameter("temp_sdev_dict", tf[6]),
           Parameter("sigma_mean", sigma[2]), Parameter("sigma_sdev", sigma[3]) >>

variational_mfvi(tree, v) == variational_family(tree, "mfvi", v)
variational_sgpr(tree, v) == variational_family(tree, "sgpr", v)

\* mutant: the parameters of variational_family_sample in the order
\* variational_family returns them
ParameterSlots_as_returned(args) ==
    [weight_gp_mean_dict |-> args[1], weight_gp_vcov_dict |-> args[2],
     resid_gp_mean |-> args[3], resid_gp_vcov |-> args[4],
     temp_mean_dict |-> args[5], temp_sdev_dict |-> args[6],
     sigma_mean |-> args[7], sigma_sdev |-> args[8]]

\* the signature of variational_family_sample: the positional arguments after
\* n_sample bound to its parameter names
ParameterSlots(args) ==
    [weight_gp_mean_dict |-> args[1], weight_gp_vcov_dict |-> args[2],
     temp_mean_dict |-> args[3], temp_sdev_dict |-> args[4],
     resid_gp_mean |-> args[5], resid_gp_vcov |-> args[6],
     sigma_mean |-> args[7], sigma_sdev |-> args[8]]

\* gp.variational_mfvi_sample / gp.variational_sgpr_sample(n_sample, mean, vcov)
\* and inference_util.scalar_gaussian_variational_sample: n_sample draws,
\* described by the distribution they are drawn from
gp_sample_func(family, n_sample, mean, vcov) ==
    [sampler |-> family, n_sample |-> n_sample, loc |-> mean, scale |-> vcov]

scalar_gaussian_variational_sample(n_sample, mean, sdev) ==
    [sampler |-> "normal", n_sample |-> n_sample, loc |-> mean, scale |-> sdev]

\* tail_free.variational_family_sample: <<weight_gp_sample_dict, temp_sample_dict>>
tail_free_variational_family_sample(n_sample, w_mean, w_vcov, t_mean, t_sdev, family) ==
    << [k \in DOMAIN w_mean |-> gp_sample_func(family, n_sample, w_mean[k], w_vcov[k])],
       [k \in DOMAIN t_mean |->
            scalar_gaussian_variational_sample(n_sample, t_mean[k], t_sdev[k])] >>

\* resid_gp_sample = gp_sample_func(n_sample, resid_gp_mean, resid_gp_vcov)
resid_gp_sampler(family, n_sample, mean, vcov) ==
    gp_sample_func(family, n_sample, mean, vcov)

\* the 4 values variational_family_sample returns
variational_family_sample(n_sample, args, family) ==
    LET a == ParameterSlots(args)
        tf == tail_free_variational_family_sample(
                  n_sample, a.weight_gp_mean_dict.value, a.weight_gp_vcov_dict.value,
                  a.temp_mean_dict.value, a.temp_sdev_dict.value, family)
    IN  << tf[1], tf[2],
           resid_gp_sampler(family, n_sample, a.resid_gp_mean.value, a.resid_gp_vcov.value),
           scalar_gaussian_variational_sample(n_sample, a.sigma_mean.value,
                                              a.sigma_sdev.value) >>

variational_mfvi_sample(n_sample, args) == variational_family_sample(n_sample, args, "mfvi")
variational_sgpr_sample(n_sample, args) == variational_family_sample(n_sample, args, "sgpr")

\* the driver's choice of the pair of functions by family_name
ensemble_variational_family(name, tree, v) ==
    IF name = "mfvi" THEN variational_mfvi(tree, v) ELSE variational_sgpr(tree, v)

ensemble_variational_family_sample(name, n_sample, args) ==
    IF name = "mfvi" THEN variational_mfvi_sample(n_sample, args)
    ELSE variational_sgpr_sample(n_sample, args)

\* the trainable parameters: everything variational_family returns after the
\* four random variables
TrainableParameters(ret) == SubSeq(ret, 5, 12)

\* the argument list the drivers write out: weight GP, temperature, residual
\* GP, sigma
DriverArguments(params) ==
    << params[1], params[2], params[5], params[6],
       params[3], params[4], params[7], params[8] >>

\* the VI driver: build the family, hand its parameters to the sampling
\* function, sample
VariationalFamily ==
    /\ call = "variational_family" /\ pc = "start"
    /\ \E v \in RawValues, n_sample \in {1, 2} :
        \E ret \in {ensemble_variational_family(family_name, family_tree, v)} :
            \E args \in {IF arg_order = "driver"
                          THEN DriverArguments(TrainableParameters(ret))
                          ELSE TrainableParameters(ret)} :
                /\ variational_params' = ret
                /\ sample_args' = ParameterSlots(args)
                /\ variational_samples' =
                      ensemble_variational_family_sample(family_name, n_sample, args)
    /\ pc' = "done"
    /\ UNCHANGED <<inputs, prediction, extrapolation, vi_graph, weight_gp_dict, temp_dict, resid_gp_sample,
                   trace, err, err_key, results, driver, flat, training>>

(* ------------- adaptive_ensemble: sample_posterior_weight_flat ---------- *)
\* np.moveaxis(np.asanyarray(weight_sample), 0, -1): the list of K arrays of
\* shape (N_sample, N_obs) as one array of shape (N_sample, N_obs, K)
MoveModelAxisLast(list) ==
    [s \in DOMAIN list[1] |-> [pt \in DOMAIN list[1][s] |->
        [k \in DOMAIN list |-> list[k][s][pt]]]]

\* the array the link function is given
WeightArray(w) == IF w.kind = "list" THEN MoveModelAxisLast(w.data) ELSE w.data

\* "if isinstance(weight_sample, list):", the only place where the sample
\* size of weight_sample is compared with that of temp_sample
SampleSizeChecked(w) == w.kind = "list"

\* link_func over the sample axis: sample s of the weights with temperature
\* s, a sample axis of length 1 being repeated
LinkOverSamples(weights, temps) ==
    LET n == IF Len(weights) >= Len(temps) THEN Len(weights) ELSE Len(temps)
    IN  [s \in 1..n |->
            link_func(weights[IF Len(weights) = 1 THEN 1 ELSE s],
                      Exp(temps[IF Len(temps) = 1 THEN 1 ELSE s]))]

\* the sample axes the link function can combine: equal, or one of length 1
Broadcastable(weights, temps) ==
    Len(weights) = Len(temps) \/ Len(weights) = 1 \/ Len(temps) = 1

SamplePosteriorWeightFlat ==
    /\ call = "sample_posterior_weight_flat" /\ pc = "start"
    /\ IF SampleSizeChecked(weight_sample)
          /\ Len(WeightArray(weight_sample)) # Len(temp_sample)
       THEN /\ err' = "ValueError"
            /\ UNCHANGED ensemble_weight_sample
       ELSE IF Broadcastable(WeightArray(weight_sample), temp_sample)
       THEN /\ ensemble_weight_sample' =
                  LinkOverSamples(WeightArray(weight_sample), temp_sample)
            /\ UNCHANGED err
       ELSE \* the link function is handed sample axes it cannot combine: it
            \* fails with an error of the tensor library
            /\ err' \in {"ValueError", "InvalidArgumentError"}
            /\ UNCHANGED ensemble_weight_sample
    /\ pc' = "done"
    /\ UNCHANGED <<inputs, prediction, extrapolation, vi_graph, weight_gp_dict, temp_dict, resid_gp_sample,
                   trace, err_key, results, driver, variational, training>>

(* ---------------------- example driver: VI training loop ---------------- *)
\* the values "sess.run([train_op, elbo])" can return for the loss: with
\* finite variables the loss is finite or not, with variables that are not
\* finite it is not
LossValues(finite) == IF finite THEN {"finite", "nan", "inf"} ELSE {"nan"}

\* mutant: the loop left as soon as a loss value is not finite
LoopContinues_while_finite(i, loss) == i < MaxSteps /\ loss \in {"none", "finite"}

\* mutant: one iteration more than the budget
LoopContinues_one_more(i, loss) == i <= MaxSteps

\* "for step in range(max_steps):", whatever the last loss value was
LoopContinues(i, loss) == i < MaxSteps

\* one iteration: the optimizer step and the loss are run together; the
\* gradient of a loss that is not finite leaves the variables not finite
TrainStep ==
    /\ call = "vi_training" /\ pc \in {"start", "training"}
    /\ LoopContinues(step, elbo_value)
    /\ \E value \in LossValues(variables_finite) :
        /\ elbo_value' = value
        /\ variables_finite' = (variables_finite /\ value = "finite")
    /\ step' = step + 1
    /\ pc' = "training"
    /\ UNCHANGED <<inputs, prediction, extrapolation, vi_graph, weight_gp_dict, temp_dict, resid_gp_sample, trace,
                   err, err_key, results, driver, variational, flat, fitted>>

\* mutant: the fetch of the parameter values placed inside the loop
AfterLoop_any(i, loss) == TRUE

\* the statement after the loop is reached when the loop has ended
AfterLoop(i, loss) == ~LoopContinues(i, loss)

\* after the loop: the values of the variational parameters are fetched, to
\* be sampled from
FetchParameters ==
    /\ call = "vi_training" /\ pc \in {"start", "training"}
    /\ AfterLoop(step, elbo_value)
    /\ fitted' = IF variables_finite THEN "finite" ELSE "nan"
    /\ pc' = "done"
    /\ UNCHANGED <<inputs, prediction, extrapolation, vi_graph, weight_gp_dict, temp_dict, resid_gp_sample, trace,
                   err, err_key, results, driver, variational, flat,
                   step, elbo_value, variables_finite>>

\* the keyword arguments of the driver's call of
\* ensemble_variational_family_sample
SampleCallKeywords ==
    {"log_ls_weight_mean", "log_ls_weight_sdev", "log_ls_resid_mean", "log_ls_resid_sdev"}

\* the parameters of variational_family_sample, which takes no **kwargs
variational_family_sample_parameters ==
    {"n_sample", "weight_gp_mean_dict", "weight_gp_vcov_dict", "temp_mean_dict",
     "temp_sdev_dict", "resid_gp_mean", "resid_gp_vcov", "sigma_mean", "sigma_sdev",
     "gp_sample_func"}

\* the values variational_family_sample returns
variational_family_sample_returns ==
    <<"weight_gp_sample_dict", "temp_sample_dict", "resid_gp_sample", "sigma_sample">>

\* the targets the drivers unpack the result of
\* ensemble_variational_family_sample into
SampleTargets ==
    <<"weight_gp_sample_dict", "temp_sample_dict", "resid_gp_sample", "sigma_sample",
      "_", "_">>

\* the outcome of the drivers' call of ensemble_variational_family_sample
SampleCallOutcome(before) ==
    CallOutcome(variational_family_sample_parameters, SampleCallKeywords,
                SampleTargets, variational_family_sample_returns, before)

\* the sampling stage, in a new session: the fetched values are the arguments
\* of ensemble_variational_family_sample; a keyword the function does not
\* take is a TypeError
SampleSnapshot ==
    /\ call = "vi_training" /\ pc = "done" /\ sample_args = <<>>
    /\ sample_args' = <<fitted>>
    /\ err' = SampleCallOutcome(err)
    /\ variational_samples' = IF SampleCallOutcome(err) = err
                              THEN <<fitted>> ELSE variational_samples
    /\ UNCHANGED <<inputs, prediction, extrapolation, vi_graph, weight_gp_dict, temp_dict, resid_gp_sample, trace,
                   err_key, results, driver, variational_params, flat, training, pc>>

(* ----------------------- example driver: VI objective ------------------- *)
\* variational_rv_dict: the residual GP and sigma, then the temperatures,
\* then the weight GPs
make_variational_rv_dict(weight_gp, resid_gp, temp, sigma) ==
    Update(Update(<< <<"ensemble_resid", resid_gp>>, <<"sigma", sigma>> >>, Items(temp)),
           Items(weight_gp))

\* model_tape: the random variables model_tailfree declares, by name
model_tape(tree) ==
    LET names == Range(PriorNames(tree)) \cup {"ensemble_resid", "sigma", "y"}
    IN  [n \in names |-> [name |-> n, family |-> "prior"]]

\* the names of variational_rv_dict that model_tape does not hold
Untaped(rv_dict, tape) == SelectSeq(Keys(rv_dict), LAMBDA n : n \notin DOMAIN tape)

\* one summand kl_divergence(variational_rv, model_tape[rv_name]) per item
kl_summands(rv_dict, tape) ==
    [i \in DOMAIN rv_dict |->
        [rv_name |-> rv_dict[i][1], q |-> rv_dict[i][2], p |-> tape[rv_dict[i][1]]]]

\* the keyword arguments of the drivers' call of ensemble_variational_family
FamilyCallKeywords ==
    {"X", "Z", "base_pred", "family_tree", "log_ls_weight", "log_ls_resid",
     "kernel_func", "ridge_factor"}

\* the named parameters of variational_family, which also takes **kwargs
variational_family_parameters ==
    {"X", "base_pred", "family_tree", "gp_vi_family", "ls_weight", "ls_resid"}

\* the targets the drivers unpack the result of ensemble_variational_family
\* into
FamilyTargets ==
    <<"weight_gp_dict", "resid_gp", "temp_dict", "sigma", "_", "_",
      "weight_gp_mean_dict", "weight_gp_vcov_dict", "resid_gp_mean", "resid_gp_vcov",
      "temp_mean_dict", "temp_sdev_dict", "sigma_mean", "sigma_sdev">>

\* the drivers' call of ensemble_variational_family and the unpacking of its
\* result
FamilyCall ==
    /\ call = "vi_family_call" /\ pc = "start"
    /\ \E v \in RawValues :
        \E ret \in {ensemble_variational_family(family_name, family_tree, v)} :
            /\ variational_params' = ret
            /\ err' = CallOutcome(WithKwargs(variational_family_parameters, FamilyCallKeywords),
                                  FamilyCallKeywords, FamilyTargets, ret, err)
    /\ pc' = "done"
    /\ UNCHANGED <<inputs, prediction, extrapolation, vi_graph, weight_gp_dict, temp_dict,
                   resid_gp_sample, trace, err_key, results, driver, sample_args,
                   variational_samples, flat, training>>

\* the graph of the objective, from the random variables of the variational
\* family: the dict of the random variables, the model under interception,
\* and the KL term
ViGraph ==
    /\ call = "vi_graph" /\ pc = "start"
    /\ \E v \in RawValues :
        \E ret \in {ensemble_variational_family(family_name, family_tree, v)} :
            \E d \in {make_variational_rv_dict(ret[1], ret[2], ret[3], ret[4])} :
                /\ variational_params' = ret
                /\ variational_rv_dict' = d
                /\ trace' = PriorNames(family_tree) \o <<"ensemble_resid", "sigma", "y">>
                /\ IF Untaped(d, model_tape(family_tree)) # <<>>
                   THEN /\ err' = "KeyError"
                        /\ err_key' = Untaped(d, model_tape(family_tree))[1]
                        /\ kl' = kl
                   ELSE /\ kl' = kl_summands(d, model_tape(family_tree))
                        /\ UNCHANGED <<err, err_key>>
    /\ pc' = "done"
    /\ UNCHANGED <<inputs, prediction, extrapolation, weight_gp_dict, temp_dict, resid_gp_sample,
                   results, driver, sample_args, variational_samples, flat, training>>

(* ------------------ gaussian_process: sample_posterior_full ------------- *)
\* gp.rbf with lengthscale 1, the exponential taken to the base 2 as in Exp
rbf(x, y) == Rat(1, Pow2((x - y) * (x - y)))

\* the kernel matrix K(A, B)
KernelMatrix(A, B) == [i \in DOMAIN A |-> [j \in DOMAIN B |-> rbf(A[i], B[j])]]

\* K + ridge * I
AddRidge(K, ridge) ==
    [i \in DOMAIN K |-> [j \in DOMAIN K[i] |->
        IF i = j THEN RAdd(K[i][j], ridge) ELSE K[i][j]]]

\* the solution x of A x = b for a positive definite A of one or two rows
Solve(A, b) ==
    IF Len(A) = 1 THEN <<RDiv(b[1], A[1][1])>>
    ELSE LET det == RSub(RMul(A[1][1], A[2][2]), RMul(A[1][2], A[2][1]))
         IN  << RDiv(RSub(RMul(b[1], A[2][2]), RMul(A[1][2], b[2])), det),
                RDiv(RSub(RMul(A[1][1], b[2]), RMul(A[2][1], b[1])), det) >>

MatVec(M, v) == [i \in DOMAIN M |-> RSum([j \in DOMAIN v |-> RMul(M[i][j], v[j])])]

\* mutant: the cross covariance applied to the sample itself
conditional_mean_unsolved(K_new_obs, K_obs, f) ==
    MatVec(K_new_obs, [j \in DOMAIN f |-> RInt(f[j])])

\* K(X_new, X) (K(X, X) + ridge I)^-1 f
conditional_mean(K_new_obs, K_obs, f) ==
    MatVec(K_new_obs, Solve(K_obs, [j \in DOMAIN f |-> RInt(f[j])]))

\* the diagonal of K(X_new, X_new) - K(X_new, X) (K(X, X) + ridge I)^-1 K(X, X_new)
conditional_variance(K_new, K_new_obs, K_obs) ==
    [i \in DOMAIN K_new |->
        RSub(K_new[i][i],
             RSum([j \in DOMAIN K_obs |->
                     RMul(K_new_obs[i][j], Solve(K_obs, K_new_obs[i])[j])]))]

\* one conditional Gaussian at the new locations per sample of f: its mean
\* and the variance of the noise drawn around it
sample_posterior_full(x_new, x_obs, samples, ridge) ==
    LET K_obs == Eval(AddRidge(KernelMatrix(x_obs, x_obs), ridge))
        K_new_obs == Eval(KernelMatrix(x_new, x_obs))
        K_new == Eval(KernelMatrix(x_new, x_new))
        var == Eval(conditional_variance(K_new, K_new_obs, K_obs))
    IN  [s \in DOMAIN samples |->
            [mean |-> conditional_mean(K_new_obs, K_obs, samples[s]), var |-> var]]

SamplePosteriorFull ==
    /\ call = "sample_posterior_full" /\ pc = "start"
    /\ f_new_sample' = sample_posterior_full(X_new, X, f_sample, ridge_factor)
    /\ pc' = "done"
    /\ UNCHANGED <<inputs, prediction, vi_graph, weight_gp_dict, temp_dict, resid_gp_sample, trace,
                   err, err_key, results, driver, variational, flat, training>>

Next ==
    \/ SamplePosteriorTailfree
    \/ ModelTailfree
    \/ ModelFlat
    \/ McmcGraph
    \/ VariationalFamily
    \/ SamplePosteriorWeightFlat
    \/ TrainStep
    \/ FetchParameters
    \/ SamplePosteriorFull
    \/ SampleSnapshot
    \/ ViGraph
    \/ McmcPrediction
    \/ McmcGraph2d
    \/ ViPrediction
    \/ FamilyCall

Spec == Init /\ [][Next]_vars

(* ------------- example driver: model family weights (plots) ------------- *)
\* np.stack([cond_weights_dict_val[key] for key in family_tree_dict['root']], axis=-1)
ensemble_weights_family(cond_weights, tree) ==
    [pt \in Points |->
        [i \in DOMAIN tree[ROOT_NODE_DEFAULT_NAME] |->
            cond_weights[tree[ROOT_NODE_DEFAULT_NAME][i]][pt]]]

(* ======================================================================= *)
(* Reference definitions the properties are stated with.  They are written *)
(* by node name, bottom up, independently of the stacking, splitting and   *)
(* top-down descent the tail-free operators use.                           *)
(* ======================================================================= *)
RECURSIVE SetNatSum(_, _)
SetNatSum(S, f) ==
    IF S = {} THEN 0
    ELSE LET x == CHOOSE x \in S : TRUE IN f[x] + SetNatSum(S \ {x}, f)

RECURSIVE SetRSum(_, _)
SetRSum(S, f) ==
    IF S = {} THEN RZero
    ELSE LET x == CHOOSE x \in S : TRUE IN RAdd(f[x], SetRSum(S \ {x}, f))

RECURSIVE SetRProd(_, _)
SetRProd(S, f) ==
    IF S = {} THEN ROne
    ELSE LET x == CHOOSE x \in S : TRUE IN RMul(f[x], SetRProd(S \ {x}, f))

AllNodeNames(tree) ==
    DOMAIN tree \cup UNION {Range(tree[p]) : p \in DOMAIN tree}

\* the nodes on the path from the root (excluded) down to node (included)
RECURSIVE PathNodes(_, _)
PathNodes(tree, node) ==
    IF node = ROOT_NODE_DEFAULT_NAME THEN {}
    ELSE {node} \cup PathNodes(tree, ParentOf(tree, node))

\* the conditional weight of a node under its parent at one point
RefCondWeight(tree, raw, temps, node, pt) ==
    LET p == ParentOf(tree, node)
        num == [n \in Range(tree[p]) |-> Pow2(raw[n][pt] * Exp(temps[p]))]
    IN  Rat(num[node], SetNatSum(Range(tree[p]), num))

\* the product of the conditional weights on the path from the root to a leaf
RefLeafWeight(tree, raw, temps, leaf, pt) ==
    LET w == [n \in PathNodes(tree, leaf) |-> RefCondWeight(tree, raw, temps, n, pt)]
    IN  SetRProd(PathNodes(tree, leaf), w)

InUnitInterval(r) == 0 <= r[1] /\ r[1] <= r[2]

Returned(c) == call = c /\ pc = "done" /\ err = "none"

\* the calls that compute leaf weights with the tail-free operators
TailfreeDone == Returned("sample_posterior_tailfree") \/ Returned("model_tailfree")

IsFlatTree(tree) == DOMAIN tree = {ROOT_NODE_DEFAULT_NAME}

(* ======================================================================= *)
(* Properties                                                              *)
(* ======================================================================= *)

\* C1: after sample_posterior_tailfree or model_tailfree returns, every entry
\* of the leaf-weight matrix lies in [0, 1] and, at every evaluation point,
\* the entries over all leaves sum to 1.
C1_LeafWeightsOnSimplex ==
    TailfreeDone =>
        \A pt \in Points :
            /\ \A j \in DOMAIN ensemble_weights[pt] :
                  InUnitInterval(ensemble_weights[pt][j])
            /\ RSum(ensemble_weights[pt]) = ROne

\* a tree with an internal node and two leaves, on different levels, whose
\* weights are both strictly inside (0, 1) and differ
C1_Witness ==
    /\ Returned("sample_posterior_tailfree")
    /\ Cardinality(DOMAIN family_tree) = 2
    /\ Len(family_tree[ROOT_NODE_DEFAULT_NAME]) = 2
    /\ Len(ensemble_model_names) = 2
    /\ ensemble_weights[1][1] # ensemble_weights[1][2]
    /\ \A j \in 1..2 : /\ ensemble_weights[1][j][1] > 0
                       /\ ensemble_weights[1][j][1] < ensemble_weights[1][j][2]

\* the tree {root: [g1], g1: [m1, m2]} of the specification, with the node
\* names of this model
TwoLevelTree == [n \in {"root", "a"} |-> IF n = "root" THEN <<"a">> ELSE <<"b", "c">>]

\* C2: the ensemble_model_names are the leaves of the tree, each once, and the
\* weight of every leaf at every point is the product of the conditional
\* weights (as returned in cond_weights_dict) of the nodes on the path from
\* the root to the leaf; in the tree {root: [a], a: [b, c]} the conditional
\* weight of a is 1 and the leaf weight of b is the conditional weight of b.
C2_LeafWeightIsPathProduct ==
    Returned("sample_posterior_tailfree") =>
        /\ Range(ensemble_model_names) = LeafSet(family_tree)
        /\ Len(ensemble_model_names) = Cardinality(LeafSet(family_tree))
        /\ \A pt \in Points : \A j \in DOMAIN ensemble_model_names :
              ensemble_weights[pt][j] =
                  SetRProd(PathNodes(family_tree, ensemble_model_names[j]),
                           [n \in get_nonroot_node_names(family_tree) |->
                               cond_weights_dict[n][pt]])
        /\ family_tree = TwoLevelTree =>
              \A pt \in Points :
                  /\ cond_weights_dict["a"][pt] = ROne
                  /\ ensemble_weights[pt][IndexOf(ensemble_model_names, "b")]
                        = cond_weights_dict["b"][pt]

\* the two-level tree of the specification, with a leaf weight strictly
\* between 0 and 1 for b
C2_Witness ==
    /\ Returned("sample_posterior_tailfree")
    /\ family_tree = TwoLevelTree
    /\ weight_gp_dict["b"][1] # weight_gp_dict["c"][1]
    /\ ensemble_weights[1][IndexOf(ensemble_model_names, "b")][2] > 1

\* C3: the conditional weight stored for a child is the weight the link
\* function gives to that child's own raw weight among its siblings, whatever
\* the order of the parent's list, and column j of the leaf-weight matrix is
\* the path product of the j-th name of the leaf-name list returned with it.
C3_ColumnIdentity ==
    /\ Returned("sample_posterior_tailfree") =>
          \A n \in get_nonroot_node_names(family_tree) : \A pt \in Points :
              cond_weights_dict[n][pt] =
                  RefCondWeight(family_tree, weight_gp_dict, temp_dict, n, pt)
    /\ TailfreeDone =>
          \A pt \in Points : \A j \in DOMAIN ensemble_model_names :
              ensemble_weights[pt][j] =
                  RefLeafWeight(family_tree, weight_gp_dict, temp_dict,
                                ensemble_model_names[j], pt)

\* a parent whose children are listed in descending order and have different
\* raw weights, so that a swapped column would show
C3_Witness ==
    /\ Returned("sample_posterior_tailfree")
    /\ family_tree[ROOT_NODE_DEFAULT_NAME] = <<"b", "a">>
    /\ weight_gp_dict["a"][1] # weight_gp_dict["b"][1]
    /\ cond_weights_dict["a"][1] # cond_weights_dict["b"][1]

\* C4 as stated: the conditional-weight dictionary has exactly one entry per
\* node that has children, and the entry of a parent is a matrix with one
\* column per child.
C4_KeyedByParent ==
    Returned("sample_posterior_tailfree") =>
        /\ DOMAIN cond_weights_dict = get_parent_node_names(family_tree)
        /\ \A p \in get_parent_node_names(family_tree) : \A pt \in Points :
              Len(cond_weights_dict[p][pt]) = Len(family_tree[p])

\* C4 (amended): the conditional-weight dictionary is keyed by non-root node:
\* it has exactly one entry per node that appears as a child and none for the
\* root; the entry of a node is a vector over the evaluation points with
\* values in [0, 1]; at every point the entries of the children of one parent
\* sum to 1, and stacking the entries of the root's children in list order
\* gives a matrix with one column per child of the root.
C4_KeyedByChild ==
    Returned("sample_posterior_tailfree") =>
        /\ DOMAIN cond_weights_dict = get_nonroot_node_names(family_tree)
        /\ ROOT_NODE_DEFAULT_NAME \notin DOMAIN cond_weights_dict
        /\ \A n \in DOMAIN cond_weights_dict :
              /\ DOMAIN cond_weights_dict[n] = Points
              /\ \A pt \in Points : InUnitInterval(cond_weights_dict[n][pt])
        /\ \A p \in get_parent_node_names(family_tree) : \A pt \in Points :
              SetRSum(Range(family_tree[p]),
                      [c \in Range(family_tree[p]) |-> cond_weights_dict[c][pt]]) = ROne
        /\ \A pt \in Points :
              LET row == ensemble_weights_family(cond_weights_dict, family_tree)[pt]
              IN  /\ Len(row) = Len(family_tree[ROOT_NODE_DEFAULT_NAME])
                  /\ RSum(row) = ROne

\* a tree with two parents: the dictionary holds an entry for a leaf under
\* the root, which has no children, strictly between 0 and 1
C4_Witness ==
    /\ Returned("sample_posterior_tailfree")
    /\ Cardinality(get_parent_node_names(family_tree)) = 2
    /\ \E n \in DOMAIN cond_weights_dict :
          /\ n \notin get_parent_node_names(family_tree)
          /\ n \in Range(family_tree[ROOT_NODE_DEFAULT_NAME])
          /\ cond_weights_dict[n][1][1] > 0
          /\ cond_weights_dict[n][1][1] < cond_weights_dict[n][1][2]

\* C5: the ensemble mean at every point is the sum over the leaves of the
\* prediction of the leaf times the weight of the leaf, column j of the
\* weights being paired with the prediction of the j-th returned leaf name
\* whatever the key order of base_pred, and the mean of the observation (the
\* posterior predictive draw) is that sum plus the residual at the point.
C5_EnsembleMean ==
    TailfreeDone =>
        \A pt \in Points :
            /\ ensemble_mean[pt] =
                  RSum([j \in DOMAIN ensemble_model_names |->
                          RMul(RInt(PredictionOf(ensemble_model_names[j], NumPoints)[pt]),
                               ensemble_weights[pt][j])])
            /\ ensemble_sample[pt] = RAdd(ensemble_mean[pt], RInt(resid_gp_sample[pt]))

\* model_tailfree returned for a base_pred whose key order differs from the
\* order of the leaf names, with unequal leaf weights and a non-zero residual
C5_Witness ==
    /\ Returned("model_tailfree")
    /\ Len(ensemble_model_names) >= 2
    /\ Keys(base_pred) # ensemble_model_names
    /\ ensemble_weights[1][1] # ensemble_weights[1][2]
    /\ resid_gp_sample[1] = 1
    /\ ensemble_sample[1] # ensemble_mean[1]

\* C6: model_tailfree and model_flat raise ValueError exactly when some entry
\* of base_pred does not have shape (N,); the error names a key whose entry
\* has a mismatched shape, and nothing has been declared or computed then.
C6_DimensionCheck ==
    (pc = "done" /\ call \in {"model_tailfree", "model_flat"}) =>
        /\ (err = "ValueError") <=>
              (\E i \in DOMAIN base_pred : base_pred[i][2].shape # <<NumPoints>>)
        /\ err = "ValueError" =>
              /\ HasKey(base_pred, err_key)
              /\ Lookup(base_pred, err_key).shape # <<NumPoints>>
              /\ trace = <<>>
              /\ DOMAIN ensemble_weights = {}
              /\ DOMAIN ensemble_mean = {}
              /\ DOMAIN ensemble_sample = {}

\* model_flat raised ValueError for a second key of shape (N, 1) after a
\* first key of the right shape
C6_Witness ==
    /\ pc = "done" /\ call = "model_flat" /\ err = "ValueError"
    /\ Len(base_pred) >= 2
    /\ base_pred[1][2].shape = <<NumPoints>>
    /\ base_pred[2][2].shape = <<NumPoints, 1>>
    /\ err_key = base_pred[2][1]

\* C7: for a flat tree (the root is the only parent) the leaf names are the
\* root's list and the leaf-weight matrix equals, column for column, the link
\* function applied once to the stacked raw weights of the root's children
\* with exp(temperature of the root).
C7_FlatTreeIsOneLink ==
    (Returned("sample_posterior_tailfree") /\ IsFlatTree(family_tree)) =>
        LET names == family_tree[ROOT_NODE_DEFAULT_NAME]
            stacked == [pt \in Points |->
                           [i \in DOMAIN names |-> weight_gp_dict[names[i]][pt]]]
        IN  /\ ensemble_model_names = names
            /\ ensemble_weights = link_func(stacked, Exp(temp_dict[ROOT_NODE_DEFAULT_NAME]))

\* a flat tree with three leaves whose raw weights are not all equal
C7_Witness ==
    /\ Returned("sample_posterior_tailfree")
    /\ IsFlatTree(family_tree)
    /\ Len(ensemble_model_names) = 3
    /\ ensemble_weights[1][1] # ensemble_weights[1][2]

\* the flat tree {root: [a, b]}
FlatTreeAB == [n \in {"root"} |-> <<"a", "b">>]

\* the scenario of C8 at the first evaluation point
C8_Scenario ==
    /\ Returned("sample_posterior_tailfree")
    /\ family_tree = FlatTreeAB
    /\ weight_gp_dict["a"][1] = 0 /\ weight_gp_dict["b"][1] = 1
    /\ temp_dict["root"] = 0
    /\ Lookup(base_pred, "a").data[1] = 10 /\ Lookup(base_pred, "b").data[1] = 20
    /\ resid_gp_sample[1] = 0

C9_NonRootNames ==
    /\ DOMAIN family_tree # {} =>
          /\ get_nonroot_node_names(family_tree) \cup {ROOT_NODE_DEFAULT_NAME}
                = AllNodeNames(family_tree)
          /\ ROOT_NODE_DEFAULT_NAME \notin get_nonroot_node_names(family_tree)
    /\ Returned("mcmc_graph") =>
          Range(node_weight_names) =
              {"base_weight_" \o n :
                  n \in AllNodeNames(family_tree) \ {ROOT_NODE_DEFAULT_NAME}}

\* the driver built its weight names for a tree with an internal node
C9_Witness ==
    /\ Returned("mcmc_graph")
    /\ Cardinality(get_parent_node_names(family_tree)) >= 2
    /\ Len(node_weight_names) = 3

\* C10: the latents are exactly one scalar temperature per key of the tree and
\* one weight GP (a vector over the points) per node that appears as a child,
\* each once: in the names and chain-state shapes the MCMC driver builds, and
\* in the random variables model_tailfree declares.
C10_LatentsPerNode ==
    /\ Returned("mcmc_graph") =>
          /\ Range(cond_weight_temp_names) =
                {"temp_" \o p : p \in DOMAIN family_tree}
          /\ Len(cond_weight_temp_names) = Cardinality(DOMAIN family_tree)
          /\ Range(node_weight_names) =
                {"base_weight_" \o n : n \in get_nonroot_node_names(family_tree)}
          /\ Len(node_weight_names) = Cardinality(get_nonroot_node_names(family_tree))
          /\ Len(initial_state) = 2 + Len(cond_weight_temp_names) + Len(node_weight_names)
          /\ \A i \in DOMAIN cond_weight_temp_names : initial_state[2 + i] = <<>>
          /\ \A i \in DOMAIN node_weight_names :
                initial_state[2 + Len(cond_weight_temp_names) + i] = <<NumPoints>>
          /\ Range(cond_weight_temp_names) \cup Range(node_weight_names)
                = Range(PriorNames(family_tree))
    /\ Returned("model_tailfree") =>
          /\ Range(trace) =
                {"temp_" \o p : p \in DOMAIN family_tree}
                \cup {"base_weight_" \o n : n \in get_nonroot_node_names(family_tree)}
                \cup {"ensemble_resid", "sigma", "y"}
          /\ \A i, j \in DOMAIN trace : trace[i] = trace[j] => i = j

\* the driver built its names for a tree with three non-root nodes and two
\* parents, enumerating the parents in an order other than root first
C10_Witness ==
    /\ Returned("mcmc_graph")
    /\ Len(cond_weight_temp_names) = 2
    /\ cond_weight_temp_names[2] = "temp_root"
    /\ Len(node_weight_names) = 3

\* C11 (as stated): the root has neither a weight GP nor a temperature: no
\* latent named temp_<root> or base_weight_<root> is declared by
\* model_tailfree, named or initialised by the MCMC driver, or drawn.
C11_RootHasNoLatent ==
    /\ Returned("mcmc_graph") =>
          /\ "temp_" \o ROOT_NODE_DEFAULT_NAME \notin Range(cond_weight_temp_names)
          /\ "base_weight_" \o ROOT_NODE_DEFAULT_NAME \notin Range(node_weight_names)
    /\ Returned("model_tailfree") =>
          /\ "temp_" \o ROOT_NODE_DEFAULT_NAME \notin Range(trace)
          /\ "base_weight_" \o ROOT_NODE_DEFAULT_NAME \notin Range(trace)
          /\ ROOT_NODE_DEFAULT_NAME \notin DOMAIN temp_dict
          /\ ROOT_NODE_DEFAULT_NAME \notin DOMAIN weight_gp_dict

\* C11 (amended): the root has no weight GP of its own, but as the parent of
\* its children it has a temperature: for every tree exactly one latent
\* temp_<root> is named and given a scalar initial state by the MCMC driver
\* and declared and drawn by model_tailfree, and base_weight_<root> never is.
C11_RootHasTemperatureOnly ==
    /\ Returned("mcmc_graph") =>
          /\ Cardinality({i \in DOMAIN cond_weight_temp_names :
                cond_weight_temp_names[i] = "temp_" \o ROOT_NODE_DEFAULT_NAME}) = 1
          /\ \A i \in DOMAIN cond_weight_temp_names : initial_state[2 + i] = <<>>
          /\ "base_weight_" \o ROOT_NODE_DEFAULT_NAME \notin Range(node_weight_names)
          /\ Len(initial_state) = 2 + Len(cond_weight_temp_names) + Len(node_weight_names)
    /\ Returned("model_tailfree") =>
          /\ Cardinality({i \in DOMAIN trace :
                trace[i] = "temp_" \o ROOT_NODE_DEFAULT_NAME}) = 1
          /\ "base_weight_" \o ROOT_NODE_DEFAULT_NAME \notin Range(trace)
          /\ ROOT_NODE_DEFAULT_NAME \in DOMAIN temp_dict
          /\ ROOT_NODE_DEFAULT_NAME \notin DOMAIN weight_gp_dict

\* the driver built its latents for a flat tree: the root's temperature is the
\* only temperature there is
C11_Witness ==
    /\ Returned("mcmc_graph")
    /\ IsFlatTree(family_tree)
    /\ cond_weight_temp_names = <<"temp_root">>
    /\ Len(node_weight_names) >= 2

\* C12: sample_posterior_tailfree returns five values in the order (predictive
\* draws, mean draws, leaf weights, conditional weights, leaf names): the
\* first is the second plus the supplied residual draws elementwise, the
\* second is the sum over the leaves of base prediction times leaf weight, the
\* third has one column per name of the fifth, the fourth is the dictionary
\* of conditional weights, and the fifth is the list of leaf names that came
\* with the leaf weights.
C12_ReturnTuple ==
    Returned("sample_posterior_tailfree") =>
        LET ret == sample_posterior_tailfree(base_pred, family_tree, weight_gp_dict,
                                             temp_dict, resid_gp_sample)
        IN  /\ Len(ret) = 5
            /\ ret = <<ensemble_sample, ensemble_mean, ensemble_weights,
                       cond_weights_dict, ensemble_model_names>>
            /\ \A pt \in Points :
                  /\ ret[1][pt] = RAdd(ret[2][pt], RInt(resid_gp_sample[pt]))
                  /\ ret[2][pt] =
                        SetRSum(DOMAIN ret[5],
                                [j \in DOMAIN ret[5] |->
                                    RMul(RInt(Lookup(base_pred, ret[5][j]).data[pt]),
                                         ret[3][pt][j])])
                  /\ DOMAIN ret[3][pt] = DOMAIN ret[5]
            /\ DOMAIN ret[1] = Points /\ DOMAIN ret[2] = Points /\ DOMAIN ret[3] = Points
            /\ ret[4] = cond_weight_tensors_dict(family_tree, weight_gp_dict, temp_dict)
            /\ ret[5] = ensemble_weight_tensors(ret[4], family_tree)[2]

\* a call returned with a residual other than zero, so that the predictive
\* draws differ from the mean draws, for a tree with an internal node
C12_Witness ==
    /\ Returned("sample_posterior_tailfree")
    /\ ~IsFlatTree(family_tree)
    /\ \E pt \in Points : resid_gp_sample[pt] # 0
    /\ ensemble_sample # ensemble_mean
    /\ Len(ensemble_model_names) >= 2

C14_FlatHelperRejectsTree ==
    (pc = "done" /\ call = "model_flat" /\ err # "ValueError") =>
        /\ (err = "NotImplementedError") <=> (DOMAIN family_tree # {})
        /\ err = "NotImplementedError" =>
              /\ \A i \in DOMAIN trace :
                    trace[i] \notin Range(FlatWeightNames(base_pred)) \cup {"y"}
              /\ DOMAIN weight_gp_dict = {}
              /\ DOMAIN ensemble_weights = {}
              /\ DOMAIN ensemble_mean = {}
              /\ DOMAIN ensemble_sample = {}
        /\ DOMAIN family_tree = {} =>
              /\ err = "none"
              /\ Range(FlatWeightNames(base_pred)) \subseteq Range(trace)
              /\ trace[Len(trace)] = "y"
              /\ \A pt \in Points :
                    /\ DOMAIN ensemble_weights[pt] = DOMAIN base_pred
                    /\ ensemble_weights[pt] =
                          link_func(W_raw(base_pred, weight_gp_dict),
                                    Exp(temp_dict["temp"]))[pt]
                    /\ ensemble_mean[pt] =
                          SetRSum(DOMAIN base_pred,
                                  [j \in DOMAIN base_pred |->
                                      RMul(RInt(base_pred[j][2].data[pt]),
                                           ensemble_weights[pt][j])])

\* model_flat raised NotImplementedError for a tree with an internal node and
\* a well-shaped base_pred
C14_Witness ==
    /\ pc = "done" /\ call = "model_flat" /\ err = "NotImplementedError"
    /\ ~IsFlatTree(family_tree)
    /\ Len(base_pred) >= 2
    /\ \A i \in DOMAIN base_pred : base_pred[i][2].shape = <<NumPoints>>

VariationalDone == call = "variational_family" /\ pc = "done"

\* a parameter of variational_family_sample holds the trainable parameter that
\* variational_family returned at a position
Holds(slot, returned) == slot.id = returned.id /\ slot.value = returned.value

\* every parameter of variational_family_sample holds the trainable parameter
\* of the same latent that variational_family returned
BoundToSameLatent ==
    /\ Holds(sample_args.weight_gp_mean_dict, variational_params[5])
    /\ Holds(sample_args.weight_gp_vcov_dict, variational_params[6])
    /\ Holds(sample_args.resid_gp_mean, variational_params[7])
    /\ Holds(sample_args.resid_gp_vcov, variational_params[8])
    /\ Holds(sample_args.temp_mean_dict, variational_params[9])
    /\ Holds(sample_args.temp_sdev_dict, variational_params[10])
    /\ Holds(sample_args.sigma_mean, variational_params[11])
    /\ Holds(sample_args.sigma_sdev, variational_params[12])
    /\ \A k \in DOMAIN sample_args : sample_args[k].id = k

\* C15 (as stated): the trainable parameters variational_family returns
\* (everything after the four random variables), passed positionally in the
\* order returned to variational_family_sample(n, *params), bind every
\* parameter to the slot of the same latent.
C15_ReturnedOrderBinds ==
    (VariationalDone /\ arg_order = "returned") => BoundToSameLatent

\* C15 (amended): variational_family returns its trainable parameters in the
\* order weight GP, residual GP, temperature, sigma, and
\* variational_family_sample takes them in the order weight GP, temperature,
\* residual GP, sigma.  Passed in the order returned, the weight-GP and sigma
\* parameters bind to their own slots, the residual-GP mean and vcov land in
\* the temperature slots and the temperature mean and sdev in the residual-GP
\* slots; passed with the two pairs exchanged, as the drivers write the
\* call, every parameter binds to the slot of the same latent.
C15_BindsAfterExchange ==
    /\ (VariationalDone /\ arg_order = "driver") => BoundToSameLatent
    /\ (VariationalDone /\ arg_order = "returned") =>
          /\ Holds(sample_args.weight_gp_mean_dict, variational_params[5])
          /\ Holds(sample_args.weight_gp_vcov_dict, variational_params[6])
          /\ Holds(sample_args.temp_mean_dict, variational_params[7])
          /\ Holds(sample_args.temp_sdev_dict, variational_params[8])
          /\ Holds(sample_args.resid_gp_mean, variational_params[9])
          /\ Holds(sample_args.resid_gp_vcov, variational_params[10])
          /\ Holds(sample_args.sigma_mean, variational_params[11])
          /\ Holds(sample_args.sigma_sdev, variational_params[12])
          /\ sample_args.temp_mean_dict.id = "resid_gp_mean"
          /\ sample_args.resid_gp_mean.id = "temp_mean_dict"

\* the driver's call for a tree with an internal node: the temperature slot
\* holds one mean per parent, the residual slot a vector over the points
C15_Witness ==
    /\ VariationalDone /\ arg_order = "driver"
    /\ ~IsFlatTree(family_tree)
    /\ DOMAIN sample_args.temp_mean_dict.value = {"temp_" \o p : p \in DOMAIN family_tree}
    /\ DOMAIN sample_args.resid_gp_mean.value = Points
    /\ Len(variational_params) = 12

\* the family the driver did not choose
OtherFamily(name) == IF name = "mfvi" THEN "sgpr" ELSE "mfvi"

C17_SampleSizeMismatchRaises ==
    (pc = "done" /\ call = "sample_posterior_weight_flat"
        /\ Len(WeightArray(weight_sample)) # Len(temp_sample)) =>
        /\ err = "ValueError"
        /\ ensemble_weight_sample = <<>>

\* C18: for K base models sparse_conditional_weight creates K - 1 GP priors:
\* the first model of base_pred is skipped, no weight GP is declared for it.
C18_FirstModelSkipped ==
    Returned("model_flat") =>
        /\ Cardinality({i \in DOMAIN trace :
                \E j \in DOMAIN base_pred : trace[i] = "base_weight_" \o base_pred[j][1]})
              = Len(base_pred) - 1
        /\ "base_weight_" \o base_pred[1][1] \notin Range(trace)
        /\ base_pred[1][1] \notin DOMAIN weight_gp_dict

MaxValue(f) == CHOOSE m \in {f[j] : j \in DOMAIN f} : \A j \in DOMAIN f : f[j] <= m

\* the distance allowed between the conditional mean and the observed value:
\* linear in the ridge factor, 0 at ridge factor 0
RoundTripError(ridge, f) == RMul(ridge, RInt(2 * Len(f) * MaxValue(f)))

\* C19: when the new locations are the observed locations, the sampler returns
\* one output sample per input sample, and the conditional mean of each is
\* within a multiple of the ridge factor of the observed f_sample values, so
\* it reproduces them as the ridge factor goes to 0; at ridge factor 0 it
\* equals them and the sampling noise has variance 0
C19_RoundTrip ==
    (call = "sample_posterior_full" /\ pc = "done" /\ X_new = X) =>
        /\ Len(f_new_sample) = Len(f_sample)
        /\ \A s \in DOMAIN f_sample :
            /\ Len(f_new_sample[s].mean) = Len(X_new)
            /\ \A i \in DOMAIN X :
                /\ RLe(RAbs(RSub(f_new_sample[s].mean[i], RInt(f_sample[s][i]))),
                       RoundTripError(ridge_factor, f_sample[s]))
                /\ ridge_factor[1] = 0 =>
                    /\ f_new_sample[s].mean[i] = RInt(f_sample[s][i])
                    /\ f_new_sample[s].var[i] = RInt(0)

\* two different samples at two observed locations, extrapolated to the same
\* locations with ridge factor 0
C19_Witness ==
    /\ call = "sample_posterior_full" /\ pc = "done"
    /\ X_new = X /\ Len(X) = 2
    /\ ridge_factor[1] = 0
    /\ Len(f_sample) = 2 /\ f_sample[1] # f_sample[2]
    /\ f_sample[1][1] # f_sample[1][2]
    /\ Len(f_new_sample) = 2

\* C21: every step of a variational fit is either one optimizer step, taken
\* while fewer than max_steps have been taken and advancing the step count by
\* exactly one, or the fetch of the parameters after exactly max_steps steps,
\* which ends the loop; what follows the end of the loop takes no optimizer
\* step; no step is skipped and none is added, whatever the loss values are.
C21_ExactlyMaxSteps ==
    [][call = "vi_training" =>
          \/ /\ pc # "done" /\ step < MaxSteps
             /\ step' = step + 1
             /\ pc' = "training" /\ fitted' = "none"
          \/ /\ pc # "done" /\ step = MaxSteps
             /\ step' = step
             /\ pc' = "done" /\ fitted' # "none"
          \/ /\ pc = "done" /\ step = MaxSteps
             /\ step' = step
             /\ pc' = "done"]_vars

\* a fit that ended after max_steps steps, each with a finite loss
C21_Witness ==
    /\ call = "vi_training" /\ pc = "done"
    /\ step = MaxSteps
    /\ elbo_value = "finite" /\ variables_finite
    /\ fitted = "finite"

\* C22: within one fit the values of the variational parameters are fetched
\* once, after the last of the max_steps training steps, and are the values
\* the last step left; from then on neither the snapshot nor the state of the
\* training changes (no training step runs), and the arguments of the
\* sampling stage are that snapshot.
C22_SnapshotImmutable ==
    [][call = "vi_training" =>
          /\ fitted' # "none" => step' = MaxSteps
          /\ (fitted = "none" /\ fitted' # "none") =>
                fitted' = (IF variables_finite THEN "finite" ELSE "nan")
          /\ fitted # "none" =>
                /\ fitted' = fitted
                /\ step' = step
                /\ elbo_value' = elbo_value
                /\ variables_finite' = variables_finite
          /\ sample_args' # <<>> =>
                /\ fitted' # "none"
                /\ sample_args' = <<fitted'>>]_vars

\* the sampling stage has taken the snapshot of a fit of max_steps steps
C22_Witness ==
    /\ call = "vi_training" /\ pc = "done"
    /\ step = MaxSteps
    /\ fitted = "finite"
    /\ sample_args = <<"finite">>

\* the names of the latents of the model for a tree: sigma, the residual GP,
\* one temperature per parent and one weight GP per non-root node
LatentNames(tree) ==
    {"sigma", "ensemble_resid"}
        \cup {"temp_" \o n : n \in get_parent_node_names(tree)}
        \cup {"base_weight_" \o n : n \in get_nonroot_node_names(tree)}

\* the factor the variational family returned for a latent
FactorOf(ret, name) ==
    IF name = "sigma" THEN ret[4]
    ELSE IF name = "ensemble_resid" THEN ret[2]
    ELSE IF name \in DOMAIN ret[3] THEN ret[3][name]
    ELSE ret[1][name]

C24_StateLayout ==
    (call \in {"mcmc_graph", "mcmc_graph_2d"} /\ pc \in {"done", "predicted"}) =>
        LET T == Len(cond_weight_temp_names)
            W == Len(node_weight_names)
            names == cond_weight_temp_names \o node_weight_names
        IN  /\ Len(initial_state) = 2 + T + W
            /\ Keys(target_binding) = <<"sigma", "ensemble_resid">> \o names
            /\ \A i \in 1..T : state_slices.temp[i] = 2 + i
            /\ \A i \in 1..W : state_slices.weight[i] = 2 + T + i

\* the latents at the head of the chain state: the 2-D driver samples the two
\* lengthscales as well
StateHead(driver_call) ==
    IF driver_call = "mcmc_graph_2d"
    THEN <<"ls_weight", "ls_resid", "sigma", "ensemble_resid">>
    ELSE <<"sigma", "ensemble_resid">>

\* C24 (amended): the chain state is a head ([sigma, residual GP] in the 1-D
\* driver, [ls_weight, ls_resid, sigma, residual GP] in the 2-D driver), then
\* one entry per temperature name, then one per weight-GP name;
\* target_log_prob_fn binds the head by position and the i-th extra
\* positional state to the i-th name of (temperature names + weight-GP
\* names); the draws are sliced at the same boundaries, so each latent has
\* one position, the same in the binding and in the slices, of scalar shape
\* for the head's scalars and the temperatures and of length-N vector shape
\* for the residual GP and the weight GPs.
C24_StateLayoutWithHead ==
    (call \in {"mcmc_graph", "mcmc_graph_2d"} /\ pc \in {"done", "predicted"}) =>
        LET T == Len(cond_weight_temp_names)
            W == Len(node_weight_names)
            head == StateHead(call)
            names == cond_weight_temp_names \o node_weight_names
        IN  /\ Len(initial_state) = Len(head) + T + W
            /\ Keys(target_binding) = head \o names
            /\ \A i \in DOMAIN target_binding : target_binding[i][2] = i
            /\ \A i, j \in DOMAIN target_binding :
                  target_binding[i][1] = target_binding[j][1] => i = j
            /\ \A n \in Range(head) :
                /\ state_slices[n] = Lookup(target_binding, n)
                /\ initial_state[state_slices[n]] =
                      (IF n = "ensemble_resid" THEN <<NumPoints>> ELSE <<>>)
            /\ Len(state_slices.temp) = T /\ Len(state_slices.weight) = W
            /\ \A i \in 1..T :
                /\ state_slices.temp[i] = Lookup(target_binding, cond_weight_temp_names[i])
                /\ initial_state[state_slices.temp[i]] = <<>>
            /\ \A i \in 1..W :
                /\ state_slices.weight[i] = Lookup(target_binding, node_weight_names[i])
                /\ initial_state[state_slices.weight[i]] = <<NumPoints>>

\* the 2-D driver built its graph for a flat tree of three base models
C24_Witness ==
    /\ call = "mcmc_graph_2d" /\ pc = "done"
    /\ Len(cond_weight_temp_names) = 1
    /\ Len(node_weight_names) = 3
    /\ Len(target_binding) = 8

\* str contains sub
Contains(str, sub) ==
    \E i \in 1..(Len(str) - Len(sub) + 1) : SubSeq(str, i, i + Len(sub) - 1) = sub

\* the keys of the two dicts are the ones the variational family produces
FamilyProducedKeys ==
    /\ Keys(weight_gp_sample_dict_val) =
          FamilyKeys(BASE_WEIGHT_NAME_PREFIX, get_nonroot_node_names(family_tree))
    /\ Keys(temp_sample_dict_val) =
          FamilyKeys(TEMP_NAME_PREFIX, get_parent_node_names(family_tree))

\* C25: for every node name n that does not contain the text "base_weight_"
\* (resp. "temp_"), removing the prefix from "base_weight_" + n (resp.
\* "temp_" + n) as the prediction stage does yields n; no node name of the
\* example tree contains either text; and for a tree without such names no
\* assertion fails on the keys the variational family produces, each sample
\* being stored under the node it was drawn for.
C25_NameRoundTrip ==
    (call = "vi_prediction" /\ pc = "done") =>
        LET nodes == get_nonroot_node_names(family_tree)
            parents == get_parent_node_names(family_tree)
            wp == BASE_WEIGHT_NAME_PREFIX \o "_"
            tp == TEMP_NAME_PREFIX \o "_"
            plain == \A n \in nodes \cup parents : ~Contains(n, wp) /\ ~Contains(n, tp)
        IN  /\ \A n \in nodes \cup parents :
                /\ ~Contains(n, wp) => node_name_of(wp \o n, BASE_WEIGHT_NAME_PREFIX) = n
                /\ ~Contains(n, tp) => node_name_of(tp \o n, TEMP_NAME_PREFIX) = n
            /\ "rbf_0.2" \in nodes => plain
            /\ (plain /\ FamilyProducedKeys) =>
                /\ err # "AssertionError"
                /\ Len(raw_weights_dict) = Cardinality(nodes)
                /\ Len(parent_temp_dict) = Cardinality(parents)
                /\ \A n \in nodes : Lookup(raw_weights_dict, n) = wp \o n
                /\ \A n \in parents : Lookup(parent_temp_dict, n) = tp \o n

\* the stage ran on the keys the family produces for the example tree
C25_Witness ==
    /\ call = "vi_prediction" /\ pc = "done"
    /\ "rbf_0.2" \in get_nonroot_node_names(family_tree)
    /\ FamilyProducedKeys
    /\ Len(raw_weights_dict) = 5
    /\ Lookup(raw_weights_dict, "rbf_0.05") = "base_weight_rbf_0.05"
    /\ Lookup(parent_temp_dict, "rquad") = "temp_rquad"

\* the positions of the keys of a sample dict that are not the prefix followed
\* by the name of one of the nodes
MalformedAt(sample_dict, prefix, nodes) ==
    {i \in DOMAIN sample_dict : sample_dict[i][1] \notin {prefix \o "_" \o n : n \in nodes}}

\* C26: in the VI prediction stage every key of the weight-sample
\* (temperature-sample) dictionary that is not the weight (temperature) prefix
\* followed by the name of a non-root (parent) node makes an assertion fail,
\* so the run aborts before sample_posterior_tailfree is called and no such
\* key is stored as a node.
C26_MalformedKeyFails ==
    (call = "vi_prediction" /\ pc = "done") =>
        LET badw == MalformedAt(weight_gp_sample_dict_val, BASE_WEIGHT_NAME_PREFIX,
                                get_nonroot_node_names(family_tree))
            badt == MalformedAt(temp_sample_dict_val, TEMP_NAME_PREFIX,
                                get_parent_node_names(family_tree))
        IN  /\ (badw # {} \/ badt # {}) => err = "AssertionError"
            /\ \A i \in badw :
                  weight_gp_sample_dict_val[i][2] \notin {raw_weights_dict[j][2] :
                                                           j \in DOMAIN raw_weights_dict}
            /\ \A i \in badt :
                  temp_sample_dict_val[i][2] \notin {parent_temp_dict[j][2] :
                                                       j \in DOMAIN parent_temp_dict}

\* C27: in the MCMC prediction stage the sample stored under node name n in
\* raw_weights_dict (parent_temp_dict) is the chain state that was bound to
\* the latent base_weight_n (temp_n) in the target log-density, whatever the
\* orders in which the sets of node names are enumerated on their separate
\* calls.
C27_SamplesOfOwnLatent ==
    (call = "mcmc_graph" /\ pc = "predicted") =>
        /\ \A i \in DOMAIN raw_weights_dict :
              raw_weights_dict[i][2] =
                  Lookup(target_binding,
                         BASE_WEIGHT_NAME_PREFIX \o "_" \o raw_weights_dict[i][1])
        /\ \A i \in DOMAIN parent_temp_dict :
              parent_temp_dict[i][2] =
                  Lookup(target_binding,
                         TEMP_NAME_PREFIX \o "_" \o parent_temp_dict[i][1])

\* C28 (as stated): model_flat called with a non-empty family tree fails
\* before any random variable has been declared, so the failed call leaves
\* the trace of declared variables as it was (empty) and no latent such as
\* 'temp' registered.
C28_FailsBeforeAnyDeclaration ==
    (call = "model_flat" /\ pc = "done" /\ DOMAIN family_tree # {}) =>
        /\ err # "none"
        /\ trace = <<>>

\* C28 (amended): model_flat called with a non-empty family tree always
\* fails; on a mis-shaped base_pred it fails with ValueError before any
\* random variable is declared, otherwise it fails with NotImplementedError
\* after declaring exactly one random variable, 'temp', a vector with one
\* entry per key of the tree, and no weight GP, residual, noise scale or
\* observation.
C28_FailsAfterDeclaringTemp ==
    (call = "model_flat" /\ pc = "done" /\ DOMAIN family_tree # {}) =>
        /\ err \in {"ValueError", "NotImplementedError"}
        /\ err = "ValueError" <=> MismatchedEntries(base_pred) # {}
        /\ err = "ValueError" => trace = <<>>
        /\ err = "NotImplementedError" =>
              /\ trace = <<"temp">>
              /\ DOMAIN temp_dict = {"temp"}
              /\ Len(temp_dict["temp"]) = Cardinality(DOMAIN family_tree)
              /\ DOMAIN weight_gp_dict = {}
              /\ DOMAIN resid_gp_sample = {}
              /\ DOMAIN ensemble_sample = {}

C28_Witness ==
    /\ call = "model_flat" /\ pc = "done"
    /\ Cardinality(DOMAIN family_tree) = 2
    /\ err = "NotImplementedError"
    /\ trace = <<"temp">>
    /\ Len(temp_dict["temp"]) = 2

\* C29 (as stated): every call the example drivers make to
\* sample_posterior_tailfree and to the *_sample functions passes only
\* keywords the callee accepts, and the results of sample_posterior_tailfree,
\* of the variational family and of the *_sample functions are unpacked into
\* as many targets as the callee returns, so no driver stage ends in a
\* TypeError or a ValueError of the interface.
C29_NoInterfaceMismatch ==
    /\ Accepts(sample_posterior_tailfree_parameters, PosteriorCallKeywords)
    /\ Accepts(variational_family_sample_parameters, SampleCallKeywords)
    /\ Len(PosteriorTargets) = 5 /\ Len(FamilyTargets) = 12 /\ Len(SampleTargets) = 4
    /\ (call = "mcmc_graph" /\ pc = "predicted") => err = "none"
    /\ (call = "vi_family_call" /\ pc = "done") => err = "none"
    /\ (call = "vi_training" /\ pc = "done" /\ sample_args # <<>>) => err = "none"
    /\ (call = "vi_prediction" /\ pc = "done") => err \in {"none", "AssertionError"}

\* C30 (as stated): in the MCMC experiment of the 1-D driver the lengthscales
\* handed to the weight-GP priors and to the residual-GP prior of the fitted
\* model (ls_weight, ls_resid of model_tailfree) are the lengthscales handed
\* to the GP posterior extrapolation of those latents to the new locations.
C30_SameLengthscale ==
    (call = "mcmc_graph" /\ pc = "predicted") =>
        /\ prior_ls.ls_weight = posterior_ls.ls_weight
        /\ prior_ls.ls_resid = posterior_ls.ls_resid

====
